---- MODULE Spec2Model ----
(***************************************************************************)
(* A model of codalab/model/bundle_model.py (class BundleModel): the       *)
(* worksheet item table with its optimistic update protocol, the group     *)
(* and permission tables, the bundle tables with search, update and        *)
(* delete, and the bundle action queue.  An operation that runs in one     *)
(* storage transaction (with self.engine.begin()) is one atomic action,    *)
(* and an exception inside the transaction rolls it back.  An operation    *)
(* of several transactions (delete_bundles, get_self_and_descendants,      *)
(* create_tables, save_bundle) is one action per transaction, and the two  *)
(* statements of pop_bundle_actions are two actions, as the source sets    *)
(* no isolation level that would keep other writers out between them.      *)
(***************************************************************************)
EXTENDS Integers, Sequences, FiniteSets, TLC

(***************************************************************************)
(* Bounds of the model.                                                    *)
(***************************************************************************)
\* the largest auto-increment id the storage engine hands out in a run
MaxId == 3
\* the largest expected length a caller passes to update_worksheet
MaxLength == 2
\* the largest number of replacement items of one update_worksheet call
MaxNew == 2
\* the largest auto-increment id of group_bundle_permission in a run
MaxPermId == 2
\* the largest auto-increment id of user_group in a run
MaxUserGroupId == 1
\* the largest number of object uuids in one get_user_permissions call
MaxObjects == 2
\* the largest number of uuids a caller passes to get_self_and_descendants
MaxSeeds == 2
\* the largest finite depth a caller passes to get_self_and_descendants
MaxDepth == 2
\* the largest number of rows of bundle_dependency in a dependency walk
MaxEdges == 4

(***************************************************************************)
(* Values.                                                                 *)
(***************************************************************************)
\* Python's None / SQL NULL in a string column
NULL == "NULL"
\* a NULL sort_key; a non-null sort key k is <<k>>
NoKey == << >>

WorksheetUuids == {"w1", "w2"}
BundleUuids == {"b1", "b2"}

TYPE_BUNDLE == "bundle"
TYPE_MARKUP == "markup"

\* the (bundle_uuid, subworksheet_uuid, value, type) tuples callers pass
ItemInputs ==
    { <<"b1", NULL, NULL, TYPE_BUNDLE>>,
      <<NULL, NULL, "x", TYPE_MARKUP>> }

RECURSIVE SeqsUpTo(_, _)
SeqsUpTo(S, n) ==
    IF n = 0 THEN { << >> }
    ELSE LET shorter == SeqsUpTo(S, n - 1)
         IN  shorter \cup { Append(s, x) : s \in { t \in shorter : Len(t) = n - 1 }, x \in S }

NewItemInputs == SeqsUpTo(ItemInputs, MaxNew)

Writers == {"A", "B"}

\* State.RUNNING and another state of codalab.common.State
RUNNING == "running"
READY == "ready"

\* public_group_uuid: the uuid of the system-defined group 'public'
PublicGroupUuid == "public"

\* the ways an operation ends
OK == "ok"
UsageError == "UsageError"
IntegrityError == "IntegrityError"

VARIABLES
    worksheet_item,           \* the worksheet_item table: a set of rows
    nextId,                   \* the next auto-increment id of worksheet_item
    bundle,                   \* the bundle table
    bundle_metadata,          \* the bundle_metadata table
    bundle_dependency,        \* the bundle_dependency table
    group_bundle_permission,  \* the group_bundle_permission table
    permNextId,               \* the next auto-increment id of group_bundle_permission
    cl_group,                 \* the group table
    user_group,               \* the user_group table
    userGroupNextId,          \* the next auto-increment id of user_group
    snap,                     \* per caller: the worksheet snapshot it holds
    last,                     \* the last operation: its arguments and how it ended
    walker,                   \* the locals of a running get_self_and_descendants
    deleter,                  \* the position of a running delete_bundles
    instance,                 \* per BundleModel object: its public_group_uuid and its
                              \* position in create_tables
    saver,                    \* per caller of save_bundle: its position and its bundle
    bundle_action,            \* the bundle_action table
    actionNextId,             \* the next auto-increment id of bundle_action
    popper,                   \* per caller of pop_bundle_actions: its position and the rows it read
    queue_log,                \* the history of the queue: the pops that returned each row
    worksheet,                \* the worksheet table
    group_worksheet_permission  \* the group_worksheet_permission table

bundleTables == << bundle, bundle_metadata, bundle_dependency >>

groupTables == << permNextId, cl_group, user_group, userGroupNextId >>

tables == << worksheet_item, nextId, bundleTables, group_bundle_permission, groupTables >>

\* the callers that are inside an operation of several transactions
procs == << walker, deleter, instance, saver >>

\* the bundle_action table and the callers of pop_bundle_actions
queue == << bundle_action, actionNextId, popper, queue_log >>

\* the worksheet rows and the permissions on worksheets
worksheetTables == << worksheet, group_worksheet_permission >>

vars == << tables, snap, last, procs, queue, worksheetTables >>

(***************************************************************************)
(* The storage engine: auto-increment ids grow and are never handed out    *)
(* twice.                                                                  *)
(***************************************************************************)
\* the rows `values` (a sequence of rows without id) get on insertion
InsertRows(values, firstId) ==
    { [values[i] EXCEPT !.id = firstId + i - 1] : i \in 1..Len(values) }

\* a set of rows as the sequences a SELECT without ORDER BY may return
RECURSIVE RowOrders(_)
RowOrders(rows) ==
    IF rows = {} THEN { << >> }
    ELSE UNION { { <<r>> \o s : s \in RowOrders(rows \ {r}) } : r \in rows }

(***************************************************************************)
(* codalab.objects.worksheet: the sort_key protocol and a fetched          *)
(* worksheet's last_item_id.                                               *)
(***************************************************************************)
\* an item sorts by its sort_key, and by its id when the sort_key is NULL
item_sort_key(item) == IF item.sort_key = NoKey THEN item.id ELSE item.sort_key[1]

\* last_item_id of a worksheet fetched without items
EmptyLastItemId == -1

IsSortedByKey(s) ==
    \A i \in 1..Len(s) : \A j \in 1..Len(s) :
        i < j => item_sort_key(s[i]) <= item_sort_key(s[j])

\* batch_get_worksheets: the item lists a fetch of worksheet w may return:
\* sorted(item_rows, key=item_sort_key) is stable, so rows of equal key stay
\* in the order the SELECT returned them, which the engine chooses.
FetchItems(items, w) ==
    { s \in RowOrders({ r \in items : r.worksheet_uuid = w }) : IsSortedByKey(s) }

(***************************************************************************)
(* BundleModel.update_worksheet                                            *)
(***************************************************************************)
\* DeleteClause without the worksheet condition
DeleteClauseAnyWorksheet(row, worksheet_uuid, last_item_id) ==
    row.id <= last_item_id

\* DeleteClause without the bound on the id
DeleteClauseNoIdBound(row, worksheet_uuid, last_item_id) ==
    row.worksheet_uuid = worksheet_uuid

\* the WHERE clause of the delete: the items of the worksheet up to last_item_id
DeleteClause(row, worksheet_uuid, last_item_id) ==
    /\ row.worksheet_uuid = worksheet_uuid
    /\ row.id <= last_item_id

\* NewSortKey without the shift by the number of new items
NewSortKeyUnshifted(last_item_id, i, n) == last_item_id + i

\* the sort key of the new item at 0-based position i of n new items
NewSortKey(last_item_id, i, n) == last_item_id + i - n

\* the rows to insert, in the order of new_items (their ids are set on insertion)
new_item_values(worksheet_uuid, last_item_id, new_items) ==
    [ k \in 1..Len(new_items) |->
        [ id |-> 0,
          worksheet_uuid |-> worksheet_uuid,
          bundle_uuid |-> new_items[k][1],
          subworksheet_uuid |-> new_items[k][2],
          value |-> new_items[k][3],
          type |-> new_items[k][4],
          sort_key |-> << NewSortKey(last_item_id, k - 1, Len(new_items)) >> ] ]

\* codalab.common.precondition: how a failed precondition ends the operation
PreconditionFailure == IntegrityError

\* UpdateOutcome with the two comparisons exchanged
UpdateOutcomeSwapped(rowcount, length) ==
    IF ~(rowcount >= length) THEN PreconditionFailure
    ELSE IF rowcount > length THEN UsageError
    ELSE OK

\* how the transaction ends, given the number of rows the delete removed
UpdateOutcome(rowcount, length) ==
    IF ~(rowcount <= length) THEN PreconditionFailure
    ELSE IF rowcount < length THEN UsageError
    ELSE OK

\* a transaction that keeps its writes when the operation fails
TransactionNoRollback(outcome, before, after) == after

\* with self.engine.begin(): an exception rolls the transaction back
Transaction(outcome, before, after) == IF outcome = OK THEN after ELSE before

update_worksheet(items, firstId, worksheet_uuid, last_item_id, length, new_items) ==
    LET deleted == { r \in items : DeleteClause(r, worksheet_uuid, last_item_id) }
        rowcount == Cardinality(deleted)
        values == new_item_values(worksheet_uuid, last_item_id, new_items)
        outcome == UpdateOutcome(rowcount, length)
    IN  [ result |-> outcome,
          rowcount |-> rowcount,
          items |-> Transaction(outcome, items,
                                (items \ deleted) \cup InsertRows(values, firstId)),
          nextId |-> Transaction(outcome, firstId, firstId + Len(values)) ]

(***************************************************************************)
(* The record of the last operation.                                       *)
(***************************************************************************)
NoCaller == "none"

NoOp ==
    [ op |-> "init", ws |-> NULL, last_item_id |-> 0, length |-> 0, n |-> 0,
      rowcount |-> 0, result |-> OK, caller |-> NoCaller, stale |-> FALSE,
      user_id |-> NULL, object_uuids |-> << >>, permissions |-> << >>,
      uuids |-> << >>, depth |-> << 0 >>, visited |-> << >>, rounds |-> 0,
      frontiers |-> << >>, keywords |-> << >>, matched |-> {}, found |-> << >>,
      before |-> {}, update |-> << >>, in_memory |-> FALSE, targets |-> {},
      order |-> << >>, returned |-> {}, since |-> {}, old |-> NULL, new |-> NULL,
      saved |-> << >> ]

\* a caller without a snapshot
NoSnap == [ taken |-> FALSE, ws |-> NULL, last_item_id |-> 0, length |-> 0, stale |-> FALSE ]

\* no get_self_and_descendants is running
IdleWalker ==
    [ pc |-> "idle", frontier |-> << >>, visited |-> << >>, depth |-> << 0 >>,
      uuids |-> << >>, depth0 |-> << 0 >>, rounds |-> 0, frontiers |-> << >> ]

\* no delete_bundles or remove_data_hash_references is running
IdleDeleter == [ pc |-> "idle", op |-> "none", uuids |-> {} ]

\* the callers of pop_bundle_actions
Poppers == { "P1", "P2" }

\* a caller that is not inside pop_bundle_actions
IdlePopper == [ pc |-> "idle", results |-> {} ]

\* the history of an empty queue: per id the number of pops that returned its
\* row, and the ids added since the last pop returned
NoQueueLog == [ returned |-> << >>, since |-> {} ]

(***************************************************************************)
(* BundleModel.add_worksheet_item                                          *)
(***************************************************************************)
\* an added item that carries a sort key of its own
AddedSortKeyZero == << 0 >>

\* 'sort_key': None
AddedSortKey == NoKey

add_worksheet_item(items, firstId, worksheet_uuid, item) ==
    LET value == IF item[3] = NULL THEN "" ELSE item[3]
        item_value == [ id |-> 0,
                        worksheet_uuid |-> worksheet_uuid,
                        bundle_uuid |-> item[1],
                        subworksheet_uuid |-> item[2],
                        value |-> value,
                        type |-> item[4],
                        sort_key |-> AddedSortKey ]
    IN  items \cup InsertRows(<< item_value >>, firstId)

AddWorksheetItem(w, item) ==
    /\ nextId <= MaxId
    /\ worksheet_item' = add_worksheet_item(worksheet_item, nextId, w, item)
    /\ nextId' = nextId + 1
    /\ last' = [ NoOp EXCEPT !.op = "add_worksheet_item", !.ws = w ]
    /\ UNCHANGED << bundleTables, group_bundle_permission, groupTables, snap, procs, queue, worksheetTables >>

(***************************************************************************)
(* BundleModel.add_shadow_worksheet_items                                  *)
(***************************************************************************)
\* the shadow rows of the old items, in the order the query returned them
shadow_items(old_items, new_bundle_uuid) ==
    [ k \in 1..Len(old_items) |->
        [ id |-> 0,
          worksheet_uuid |-> old_items[k].worksheet_uuid,
          bundle_uuid |-> new_bundle_uuid,
          subworksheet_uuid |-> NULL,
          value |-> "",
          type |-> TYPE_BUNDLE,
          sort_key |-> old_items[k].sort_key ] ]

AddShadowWorksheetItems(old_bundle_uuid, new_bundle_uuid) ==
    LET found == { r \in worksheet_item : r.bundle_uuid = old_bundle_uuid }
    IN  /\ nextId + Cardinality(found) - 1 <= MaxId
        /\ \E old_items \in RowOrders(found) :
              worksheet_item' = worksheet_item \cup
                  InsertRows(shadow_items(old_items, new_bundle_uuid), nextId)
        /\ nextId' = nextId + Cardinality(found)
        /\ last' = [ NoOp EXCEPT !.op = "add_shadow_worksheet_items",
                                  !.n = Cardinality(found),
                                  !.old = old_bundle_uuid,
                                  !.new = new_bundle_uuid ]
        /\ UNCHANGED << bundleTables, group_bundle_permission, groupTables, snap, procs, queue, worksheetTables >>

(***************************************************************************)
(* BundleModel.delete_bundles                                              *)
(***************************************************************************)
\* the check that finds a bundle running only when it is the only one given
running_uuids_alone(uuids) ==
    IF Cardinality(uuids) = 1
    THEN { r.uuid : r \in { b \in bundle : b.uuid \in uuids /\ b.state = RUNNING } }
    ELSE {}

\* _check_not_running: the running bundles among uuids
running_uuids(uuids) == { r.uuid : r \in { b \in bundle : b.uuid \in uuids /\ b.state = RUNNING } }

DeleteBundles(uuids) ==
    LET outcome == IF running_uuids(uuids) # {} THEN UsageError ELSE OK
    IN  /\ group_bundle_permission' = Transaction(outcome, group_bundle_permission,
              { r \in group_bundle_permission : r.object_uuid \notin uuids })
        /\ worksheet_item' = Transaction(outcome, worksheet_item,
              { r \in worksheet_item : r.bundle_uuid \notin uuids })
        /\ bundle_metadata' = Transaction(outcome, bundle_metadata,
              { r \in bundle_metadata : r.bundle_uuid \notin uuids })
        /\ bundle_dependency' = Transaction(outcome, bundle_dependency,
              { r \in bundle_dependency : r.child_uuid \notin uuids })
        /\ bundle' = Transaction(outcome, bundle, { r \in bundle : r.uuid \notin uuids })
        /\ last' = [ NoOp EXCEPT !.op = "delete_bundles", !.result = outcome ]
        /\ UNCHANGED << nextId, groupTables, snap, procs, queue, worksheetTables >>

(***************************************************************************)
(* A call of update_worksheet.                                             *)
(***************************************************************************)
\* the snapshots after caller c's update of worksheet w: c has used its
\* snapshot up, and a committed update that changed the worksheet makes the
\* other snapshots of w out of date
SnapsAfterUpdate(c, w, changed) ==
    [ d \in Writers |->
        IF d = c THEN NoSnap
        ELSE IF changed /\ snap[d].taken /\ snap[d].ws = w
             THEN [ snap[d] EXCEPT !.stale = TRUE ]
             ELSE snap[d] ]

UpdateCall(c, w, last_item_id, length, new_items) ==
    LET r == update_worksheet(worksheet_item, nextId, w, last_item_id, length, new_items)
    IN  /\ nextId + Len(new_items) - 1 <= MaxId
        /\ worksheet_item' = r.items
        /\ nextId' = r.nextId
        /\ snap' = SnapsAfterUpdate(c, w, r.items # worksheet_item)
        /\ last' = [ NoOp EXCEPT !.op = "update_worksheet", !.ws = w,
                                  !.last_item_id = last_item_id, !.length = length,
                                  !.n = Len(new_items), !.rowcount = r.rowcount,
                                  !.result = r.result, !.caller = c,
                                  !.stale = IF c \in Writers THEN snap[c].stale ELSE FALSE ]
        /\ UNCHANGED << bundleTables, group_bundle_permission, groupTables, procs, queue, worksheetTables >>

\* a call with arguments of the caller's choice
UpdateWorksheet(w, last_item_id, length, new_items) ==
    UpdateCall(NoCaller, w, last_item_id, length, new_items)

\* get_worksheet(uuid, fetch_items=True): the caller keeps the worksheet's
\* last_item_id and the number of its items
TakeSnapshot(c, w) ==
    LET rows == { r \in worksheet_item : r.worksheet_uuid = w }
        last_item_id == IF rows = {} THEN EmptyLastItemId
                        ELSE CHOOSE m \in { r.id : r \in rows } :
                                 \A r \in rows : r.id <= m
    IN  /\ ~snap[c].taken
        /\ snap' = [ snap EXCEPT ![c] = [ taken |-> TRUE, ws |-> w,
                                          last_item_id |-> last_item_id,
                                          length |-> Cardinality(rows),
                                          stale |-> FALSE ] ]
        /\ last' = [ NoOp EXCEPT !.op = "get_worksheet", !.ws = w, !.caller = c ]
        /\ UNCHANGED << tables, procs, queue, worksheetTables >>

\* the caller's update from its snapshot
UpdateFromSnapshot(c, new_items) ==
    /\ snap[c].taken
    /\ UpdateCall(c, snap[c].ws, snap[c].last_item_id, snap[c].length, new_items)

(***************************************************************************)
(* The worksheet specifications.                                           *)
(***************************************************************************)
InitWorksheets ==
    /\ worksheet_item = {}
    /\ nextId = 1

InitBundles ==
    /\ bundle = { [ id |-> 1, uuid |-> "b1", state |-> READY, owner_id |-> "u1",
                    data_hash |-> "h1", bundle_type |-> "program" ],
                  [ id |-> 2, uuid |-> "b2", state |-> RUNNING, owner_id |-> NULL,
                    data_hash |-> "h2", bundle_type |-> "dataset" ] }
    /\ bundle_metadata = { [ bundle_uuid |-> "b1", metadata_key |-> "name",
                             metadata_value |-> "n1" ] }

InitDependencies ==
    bundle_dependency = { [ child_uuid |-> "b1", parent_uuid |-> "b2",
                            child_path |-> "in" ] }

InitPermissions ==
    /\ group_bundle_permission = {}
    /\ permNextId = 1

InitGroups ==
    /\ cl_group = { [ uuid |-> PublicGroupUuid, name |-> "public", owner_id |-> NULL,
                      user_defined |-> FALSE ],
                    [ uuid |-> "g1", name |-> "g1", owner_id |-> "u1",
                      user_defined |-> TRUE ] }
    /\ user_group = {}
    /\ userGroupNextId = 1

InitTables ==
    /\ InitWorksheets
    /\ InitBundles
    /\ InitDependencies
    /\ InitPermissions
    /\ InitGroups

InitQueue ==
    /\ bundle_action = {}
    /\ actionNextId = 1
    /\ popper = [ c \in Poppers |-> IdlePopper ]
    /\ queue_log = NoQueueLog

\* the rows of the two worksheets, with no permission row on them
InitWorksheetRows ==
    /\ worksheet = { [ uuid |-> w, name |-> w, owner_id |-> "u1" ] : w \in WorksheetUuids }
    /\ group_worksheet_permission = {}

\* the BundleModel objects of the processes that share the store
Instances == { "M1", "M2" }

\* the callers of save_bundle
Savers == { "S1", "S2" }

\* a caller outside save_bundle
IdleSaver == [ pc |-> "idle", bundle |-> << >> ]

\* a BundleModel whose constructor has returned, over a store that holds the
\* public group
ConstructedInstance == [ pc |-> "idle", groups |-> {}, public_group_uuid |-> PublicGroupUuid ]

InitCallers ==
    /\ snap = [ c \in Writers |-> NoSnap ]
    /\ last = NoOp
    /\ walker = IdleWalker
    /\ deleter = IdleDeleter
    /\ instance = [ i \in Instances |-> ConstructedInstance ]
    /\ saver = [ c \in Savers |-> IdleSaver ]
    /\ InitQueue
    /\ InitWorksheetRows

Init ==
    /\ InitTables
    /\ InitCallers

\* the last_item_id values a caller can hold: that of an empty worksheet, or an
\* id the engine has handed out
LastItemIdInputs == { EmptyLastItemId } \cup 1..(nextId - 1)

Next ==
    \/ \E w \in WorksheetUuids, item \in ItemInputs : AddWorksheetItem(w, item)
    \/ \E old \in BundleUuids : \E new \in BundleUuids \ {old} : AddShadowWorksheetItems(old, new)
    \/ \E w \in WorksheetUuids, l \in LastItemIdInputs, len \in 0..MaxLength,
          new_items \in NewItemInputs : UpdateWorksheet(w, l, len, new_items)

Spec == Init /\ [][Next]_vars

NextSnap ==
    \/ \E w \in WorksheetUuids, item \in ItemInputs : AddWorksheetItem(w, item)
    \/ \E old \in BundleUuids : \E new \in BundleUuids \ {old} : AddShadowWorksheetItems(old, new)
    \/ \E uuids \in SUBSET BundleUuids : DeleteBundles(uuids)
    \/ \E c \in Writers, w \in WorksheetUuids : TakeSnapshot(c, w)
    \/ \E c \in Writers, new_items \in NewItemInputs : UpdateFromSnapshot(c, new_items)

SpecSnap == Init /\ [][NextSnap]_vars

(***************************************************************************)
(* Groups and permissions.                                                 *)
(***************************************************************************)
GROUP_OBJECT_PERMISSION_NONE == 0
GROUP_OBJECT_PERMISSION_READ == 1
GROUP_OBJECT_PERMISSION_ALL == 2

PermissionInputs ==
    { GROUP_OBJECT_PERMISSION_NONE, GROUP_OBJECT_PERMISSION_READ, GROUP_OBJECT_PERMISSION_ALL }

\* self.root_user_id
root_user_id == "root"

\* the principals that ask: an owner, the root user and the anonymous user
UserInputs == { "u1", root_user_id, NULL }

GroupUuids == { r.uuid : r \in cl_group }

ObjectListInputs == SeqsUpTo(BundleUuids, MaxObjects)

\* dict.get: the value of key k, or None
Get(f, k) == IF k \in DOMAIN f THEN f[k] ELSE NULL

\* get_owner_ids: the owner of each of the uuids that has a row in the table
get_owner_ids(table, uuids) ==
    LET found == { r \in table : r.uuid \in uuids }
    IN  [ u \in { r.uuid : r \in found } |->
            (CHOOSE r \in found : r.uuid = u).owner_id ]

\* _get_user_groups without the public group
UserGroupsWithoutPublic(user_id) ==
    IF user_id # NULL
    THEN { r.group_uuid : r \in { m \in user_group : m.user_id = user_id } }
    ELSE {}

\* _get_user_groups: the public group, and the groups of the user's memberships
get_user_groups(user_id) ==
    { PublicGroupUuid } \cup
    ( IF user_id # NULL
      THEN { r.group_uuid : r \in { m \in user_group : m.user_id = user_id } }
      ELSE {} )

\* batch_get_group_permissions: the permission rows of the objects that join a
\* row of the group table
joined_permission_rows(table, object_uuids) ==
    { r \in table :
        /\ r.object_uuid \in object_uuids
        /\ \E g \in cl_group : g.uuid = r.group_uuid }

\* the rows of sequence `rows` for one object, in their order
RECURSIVE RowsOf(_, _)
RowsOf(rows, object_uuid) ==
    IF rows = << >> THEN << >>
    ELSE IF Head(rows).object_uuid = object_uuid
         THEN << Head(rows) >> \o RowsOf(Tail(rows), object_uuid)
         ELSE RowsOf(Tail(rows), object_uuid)

\* the owner test with the root user forgotten
IsOwnerOnly(user_id, owner_id) == user_id = owner_id

\* Owner and root has all permissions.
IsOwnerOrRoot(user_id, owner_id) == user_id = owner_id \/ user_id = root_user_id

\* a row's level replacing the level found so far
RaiseOverwrite(current, permission) == permission

\* max(object_permissions[object_uuid], row['permission'])
Raise(current, permission) == IF permission > current THEN permission ELSE current

\* the loop over the permission rows of one object
RECURSIVE ApplyRows(_, _, _)
ApplyRows(current, rows, user_groups) ==
    IF rows = << >> THEN current
    ELSE ApplyRows(IF Head(rows).group_uuid \in user_groups
                   THEN Raise(current, Head(rows).permission)
                   ELSE current,
                   Tail(rows), user_groups)

\* get_user_permissions, with the joined rows in the order the query returned
get_user_permissions(rows, user_id, object_uuids, owner_ids) ==
    LET objects == { object_uuids[i] : i \in 1..Len(object_uuids) }
        remaining == { o \in objects : ~IsOwnerOrRoot(user_id, Get(owner_ids, o)) }
        user_groups == get_user_groups(user_id)
    IN  [ o \in objects |->
            IF o \notin remaining THEN GROUP_OBJECT_PERMISSION_ALL
            ELSE ApplyRows(GROUP_OBJECT_PERMISSION_NONE, RowsOf(rows, o), user_groups) ]

\* the orders in which the query may return the rows get_user_permissions reads
PermissionRowOrders(table, user_id, object_uuids, owner_ids) ==
    LET objects == { object_uuids[i] : i \in 1..Len(object_uuids) }
        remaining == { o \in objects : ~IsOwnerOrRoot(user_id, Get(owner_ids, o)) }
    IN  RowOrders(joined_permission_rows(table, remaining))

GetUserBundlePermissions(user_id, object_uuids) ==
    LET owner_ids == get_owner_ids(bundle, { object_uuids[i] : i \in 1..Len(object_uuids) })
    IN  /\ \E rows \in PermissionRowOrders(group_bundle_permission, user_id,
                                             object_uuids, owner_ids) :
              last' = [ NoOp EXCEPT !.op = "get_user_permissions",
                                    !.user_id = user_id,
                                    !.object_uuids = object_uuids,
                                    !.permissions = get_user_permissions(
                                        rows, user_id, object_uuids, owner_ids) ]
        /\ UNCHANGED << tables, snap, procs, queue, worksheetTables >>

\* add_permission: one more row for the (group, object) pair
AddPermission(group_uuid, object_uuid, permission) ==
    /\ permNextId <= MaxPermId
    /\ group_bundle_permission' = group_bundle_permission \cup
          { [ id |-> permNextId, group_uuid |-> group_uuid,
              object_uuid |-> object_uuid, permission |-> permission ] }
    /\ permNextId' = permNextId + 1
    /\ last' = [ NoOp EXCEPT !.op = "add_permission" ]
    /\ UNCHANGED << worksheet_item, nextId, bundleTables, cl_group, user_group,
                    userGroupNextId, snap, procs, queue, worksheetTables >>

\* update_permission: the level of every row of the (group, object) pair
UpdatePermission(group_uuid, object_uuid, permission) ==
    /\ group_bundle_permission' =
          { IF r.group_uuid = group_uuid /\ r.object_uuid = object_uuid
            THEN [ r EXCEPT !.permission = permission ]
            ELSE r : r \in group_bundle_permission }
    /\ last' = [ NoOp EXCEPT !.op = "update_permission" ]
    /\ UNCHANGED << worksheet_item, nextId, bundleTables, groupTables, snap, procs, queue, worksheetTables >>

\* delete_permission: no row of the (group, object) pair is left
DeletePermission(group_uuid, object_uuid) ==
    /\ group_bundle_permission' =
          { r \in group_bundle_permission :
              ~(r.group_uuid = group_uuid /\ r.object_uuid = object_uuid) }
    /\ last' = [ NoOp EXCEPT !.op = "delete_permission" ]
    /\ UNCHANGED << worksheet_item, nextId, bundleTables, groupTables, snap, procs, queue, worksheetTables >>

AddUserInGroup(user_id, group_uuid, is_admin) ==
    /\ userGroupNextId <= MaxUserGroupId
    /\ user_group' = user_group \cup
          { [ id |-> userGroupNextId, group_uuid |-> group_uuid,
              user_id |-> user_id, is_admin |-> is_admin ] }
    /\ userGroupNextId' = userGroupNextId + 1
    /\ last' = [ NoOp EXCEPT !.op = "add_user_in_group" ]
    /\ UNCHANGED << worksheet_item, nextId, bundleTables, group_bundle_permission,
                    permNextId, cl_group, snap, procs, queue, worksheetTables >>

DeleteUserInGroup(user_id, group_uuid) ==
    /\ user_group' = { r \in user_group :
                         ~(r.user_id = user_id /\ r.group_uuid = group_uuid) }
    /\ last' = [ NoOp EXCEPT !.op = "delete_user_in_group" ]
    /\ UNCHANGED << worksheet_item, nextId, bundleTables, group_bundle_permission,
                    permNextId, cl_group, userGroupNextId, snap, procs, queue, worksheetTables >>

NextPerm ==
    \/ \E g \in GroupUuids, o \in BundleUuids, p \in PermissionInputs :
          AddPermission(g, o, p)
    \/ \E g \in GroupUuids, o \in BundleUuids, p \in PermissionInputs :
          UpdatePermission(g, o, p)
    \/ \E g \in GroupUuids, o \in BundleUuids : DeletePermission(g, o)
    \/ \E u \in UserInputs \ { NULL }, g \in GroupUuids \ { PublicGroupUuid },
          is_admin \in BOOLEAN : AddUserInGroup(u, g, is_admin)
    \/ \E u \in UserInputs \ { NULL }, g \in GroupUuids \ { PublicGroupUuid } :
          DeleteUserInGroup(u, g)
    \/ \E u \in UserInputs, object_uuids \in ObjectListInputs :
          GetUserBundlePermissions(u, object_uuids)

SpecPerm == Init /\ [][NextPerm]_vars

(***************************************************************************)
(* Properties of update_worksheet.                                         *)
(***************************************************************************)
\* the step is a call of update_worksheet
IsUpdate == last'.op = "update_worksheet"

\* the items of the call's worksheet up to its last_item_id, before the call
Matching ==
    { r \in worksheet_item :
        r.worksheet_uuid = last'.ws /\ r.id <= last'.last_item_id }

\* the rows the step inserted
Inserted == worksheet_item' \ worksheet_item

\* the rows of set S as the sequence in increasing id
RECURSIVE ById(_)
ById(S) ==
    IF S = {} THEN << >>
    ELSE LET r == CHOOSE x \in S : \A y \in S : x.id <= y.id
         IN  << r >> \o ById(S \ {r})

\* the items of sequence s with an id above bound
RECURSIVE Above(_, _)
Above(s, bound) ==
    IF s = << >> THEN << >>
    ELSE IF Head(s).id > bound THEN << Head(s) >> \o Above(Tail(s), bound)
    ELSE Above(Tail(s), bound)

\* C1: an update_worksheet call whose expected length differs from the number
\* of items of the worksheet with id <= last_item_id fails and leaves the
\* worksheet_item table (rows, ids, sort keys) as it was.
C1_RejectedUpdateChangesNothing ==
    [][ (IsUpdate /\ Cardinality(Matching) # last'.length)
          => /\ last'.result # OK
             /\ worksheet_item' = worksheet_item
             /\ nextId' = nextId ]_vars

\* C1 witness: a rejected call that names items to delete and items to insert
C1_Witness ==
    /\ last.op = "update_worksheet"
    /\ last.result # OK
    /\ last.rowcount >= 1
    /\ last.rowcount # last.length
    /\ last.n >= 1

\* C2: a caller's update_worksheet from a snapshot that another committed
\* update_worksheet of the same worksheet has made out of date fails with
\* the conflict UsageError.
C2_StaleSnapshotIsRejected ==
    (last.op = "update_worksheet" /\ last.caller \in Writers /\ last.stale)
        => last.result = UsageError

\* C3: after a successful update_worksheet a fetch of the worksheet returns the
\* new items in the caller's order and then the items with id > last_item_id
\* in the relative order they had before (in whichever order the engine
\* returns rows of equal sort key).
C3_FetchIsNewItemsThenLaterItems ==
    [][ (IsUpdate /\ last'.result = OK)
          => \E post \in FetchItems(worksheet_item', last'.ws) :
                \E pre \in FetchItems(worksheet_item, last'.ws) :
                    post = ById(Inserted) \o Above(pre, last'.last_item_id) ]_vars

\* C4: fewer rows deleted than expected is the conflict UsageError, more is
\* the integrity error, and the same number is a success that inserts
\* len(new_items) rows.
C4_OutcomeByDirection ==
    [][ IsUpdate
          => /\ Cardinality(Matching) < last'.length => last'.result = UsageError
             /\ Cardinality(Matching) > last'.length => last'.result = IntegrityError
             /\ Cardinality(Matching) = last'.length
                   => /\ last'.result = OK
                      /\ Cardinality(Inserted) = last'.n
                      /\ worksheet_item \ worksheet_item' = Matching ]_vars

\* C4 witness: a call that found more rows than expected
C4_Witness ==
    /\ last.op = "update_worksheet"
    /\ last.rowcount > last.length
    /\ last.result = IntegrityError

\* C5: an update_worksheet whose last_item_id and length come from one
\* snapshot never deletes more rows than the expected length, so it never
\* ends with the integrity error.
C5_SnapshotNeverFindsExtraItems ==
    (last.op = "update_worksheet" /\ last.caller \in Writers)
        => /\ last.rowcount <= last.length
           /\ last.result # IntegrityError

\* C5 witness: a snapshot update after other operations removed snapshot items
C5_Witness ==
    /\ last.op = "update_worksheet"
    /\ last.caller \in Writers
    /\ last.length = 2
    /\ last.rowcount = 1

\* C6: the new item at 0-based position i of n gets the sort key
\* last_item_id + i - n: below last_item_id and increasing with i.
C6_NewSortKeys ==
    [][ (IsUpdate /\ last'.result = OK)
          => LET rows == ById(Inserted)
                 n == last'.n
             IN  /\ Len(rows) = n
                 /\ \A k \in 1..n :
                       /\ rows[k].sort_key = << last'.last_item_id + (k - 1) - n >>
                       /\ rows[k].sort_key[1] < last'.last_item_id
                 /\ \A j \in 1..n : \A k \in 1..n :
                       j < k => rows[j].sort_key[1] < rows[k].sort_key[1] ]_vars

\* C6 witness: a successful call with two new items
C6_Witness ==
    /\ last.op = "update_worksheet"
    /\ last.result = OK
    /\ last.n = 2
    /\ last.rowcount >= 1

\* C7: update_worksheet leaves every item of the worksheet with an id above
\* last_item_id, and every item of any other worksheet, as it was.
C7_LaterAndOtherItemsUntouched ==
    [][ IsUpdate
          => \A r \in worksheet_item :
                (r.worksheet_uuid # last'.ws \/ r.id > last'.last_item_id)
                    => r \in worksheet_item' ]_vars

\* C7 witness: a successful replacement that kept a later item of the
\* worksheet while another worksheet has an item
C7_Witness ==
    /\ last.op = "update_worksheet"
    /\ last.result = OK
    /\ last.rowcount >= 1
    /\ \E r \in worksheet_item :
          /\ r.worksheet_uuid = last.ws
          /\ r.id > last.last_item_id
          /\ r.id < nextId - last.n
    /\ \E r \in worksheet_item : r.worksheet_uuid # last.ws

(***************************************************************************)
(* Properties of get_user_permissions.                                     *)
(***************************************************************************)
IsQuery == last.op = "get_user_permissions"

Requested == { last.object_uuids[i] : i \in 1..Len(last.object_uuids) }

\* the recorded owner of a bundle, None when it has no row
OwnerOf(o) == IF \E b \in bundle : b.uuid = o
              THEN (CHOOSE b \in bundle : b.uuid = o).owner_id
              ELSE NULL

\* the permission rows of object o whose group is the public group or a
\* group that user u is a member of
ApplicableRows(table, u, o) ==
    { r \in table :
        /\ r.object_uuid = o
        /\ \/ r.group_uuid = PublicGroupUuid
           \/ \E m \in user_group : m.user_id = u /\ m.group_uuid = r.group_uuid }

\* the highest level of a set of rows, NONE for no row
MaxLevel(rows) ==
    IF rows = {} THEN GROUP_OBJECT_PERMISSION_NONE
    ELSE CHOOSE p \in { r.permission : r \in rows } :
             \A r \in rows : r.permission <= p

\* C8: the owner of an object, and the root user for every object, get ALL,
\* whatever permission rows the object has.
C8_OwnerAndRootGetAll ==
    IsQuery =>
        \A o \in Requested :
            (last.user_id = OwnerOf(o) \/ last.user_id = root_user_id)
                => last.permissions[o] = GROUP_OBJECT_PERMISSION_ALL

\* C8 witness: the root user asked about an object whose only row grants the
\* public group NONE
C8_Witness ==
    /\ IsQuery
    /\ last.user_id = root_user_id
    /\ \E o \in Requested :
          /\ OwnerOf(o) # root_user_id
          /\ \E r \in group_bundle_permission :
                /\ r.object_uuid = o
                /\ r.permission = GROUP_OBJECT_PERMISSION_NONE
          /\ last.permissions[o] = GROUP_OBJECT_PERMISSION_ALL

\* C9: for a principal that is neither root nor the owner, the level of an
\* object is the highest level among its rows for the public group and the
\* principal's groups (NONE without such a row), every requested object has
\* an entry, and the order of the rows makes no difference.
C9_MaxOverApplicableRows ==
    IsQuery =>
        /\ DOMAIN last.permissions = Requested
        /\ \A o \in Requested :
              (last.user_id # OwnerOf(o) /\ last.user_id # root_user_id)
                  => last.permissions[o] =
                        MaxLevel(ApplicableRows(group_bundle_permission, last.user_id, o))

\* C9 witness: a member of a group asked about an object that has a row for
\* the public group and a later, lower row for the member's group
C9_Witness ==
    /\ IsQuery
    /\ last.user_id \notin { root_user_id, NULL }
    /\ \E o \in Requested :
          /\ last.user_id # OwnerOf(o)
          /\ \E r1 \in group_bundle_permission, r2 \in group_bundle_permission :
                /\ r1.object_uuid = o /\ r2.object_uuid = o
                /\ r1.group_uuid = PublicGroupUuid
                /\ r2.group_uuid # PublicGroupUuid
                /\ r2 \in ApplicableRows(group_bundle_permission, last.user_id, o)
                /\ r1.id < r2.id
                /\ r1.permission > r2.permission
                /\ last.permissions[o] = r1.permission

\* C10: adding a permission row lowers the level get_user_permissions
\* resolves for no principal and no object.
C10_AddingARowNeverLowers ==
    [][ last'.op = "add_permission"
          => \A u \in UserInputs, object_uuids \in ObjectListInputs :
                LET owner_ids ==
                        get_owner_ids(bundle, { object_uuids[i] : i \in 1..Len(object_uuids) })
                IN  \A before \in PermissionRowOrders(group_bundle_permission, u,
                                                       object_uuids, owner_ids),
                       after \in PermissionRowOrders(group_bundle_permission', u,
                                                      object_uuids, owner_ids) :
                        \A i \in 1..Len(object_uuids) :
                            get_user_permissions(after, u, object_uuids, owner_ids)[object_uuids[i]]
                              >= get_user_permissions(before, u, object_uuids, owner_ids)[object_uuids[i]]
      ]_vars

\* C10 witness: the row just added grants the public group less than an
\* older row of the same object does
C10_Witness ==
    /\ last.op = "add_permission"
    /\ \E r1 \in group_bundle_permission, r2 \in group_bundle_permission :
          /\ r2.id = permNextId - 1
          /\ r1.id < r2.id
          /\ r1.object_uuid = r2.object_uuid
          /\ r1.group_uuid = PublicGroupUuid /\ r2.group_uuid = PublicGroupUuid
          /\ r2.permission < r1.permission

\* the rows of object o that grant a level to the public group
PublicRows(table, o) ==
    { r \in table : r.object_uuid = o /\ r.group_uuid = PublicGroupUuid }

\* C11: for the anonymous principal (user_id None) the level resolved for an
\* object is the highest level its rows grant the public group, NONE without
\* such a row, also for an object whose owner is None.
C11_AnonymousGetsPublicLevel ==
    (IsQuery /\ last.user_id = NULL)
        => \A o \in Requested :
              last.permissions[o] = MaxLevel(PublicRows(group_bundle_permission, o))

(***************************************************************************)
(* BundleModel.get_children_uuids and BundleModel.get_self_and_descendants *)
(***************************************************************************)
\* the uuids that occur in dependency rows: the stored bundles and one more
WalkNodes == BundleUuids \cup { "b3" }

\* the rows bundle_dependency may hold: every (parent, child) pair, and a second
\* row for one of the pairs
DependencyInputs ==
    { [ child_uuid |-> c, parent_uuid |-> q, child_path |-> "in" ] :
        c \in WalkNodes, q \in WalkNodes }
    \cup { [ child_uuid |-> "b2", parent_uuid |-> "b1", child_path |-> "in2" ] }

\* the depth that never runs out; a finite depth d is <<d>>
Infinity == << >>

DepthInputs == { << d >> : d \in 0..MaxDepth } \cup { Infinity }

SeedInputs == SeqsUpTo(WalkNodes, MaxSeeds)

\* the members of a list
Elements(l) == { l[i] : i \in 1..Len(l) }

\* the child uuids of the rows of one parent, in the order of the rows
RECURSIVE ChildrenOf(_, _)
ChildrenOf(rows, parent_uuid) ==
    IF rows = << >> THEN << >>
    ELSE IF Head(rows).parent_uuid = parent_uuid
         THEN << Head(rows).child_uuid >> \o ChildrenOf(Tail(rows), parent_uuid)
         ELSE ChildrenOf(Tail(rows), parent_uuid)

\* get_children_uuids: {parent_uuid: [child_uuid, ...]} built from the fetched rows
get_children_uuids(rows, uuids) ==
    [ u \in Elements(uuids) |-> ChildrenOf(rows, u) ]

\* the orders in which the query of get_children_uuids may return its rows
ChildrenRowOrders(table, uuids) ==
    RowOrders({ r \in table : r.parent_uuid \in Elements(uuids) })

\* for l in result.values(): for uuid in l: the uuids the two loops go through,
\* list after list in the order of the keys of the dict
RECURSIVE Values(_, _)
Values(result, keys) ==
    IF keys = << >> THEN << >>
    ELSE result[Head(keys)] \o Values(result, Tail(keys))

\* the loop body with a visited list that keeps only the newest uuid
RECURSIVE ScanForgetful(_, _, _)
ScanForgetful(l, new_frontier, visited) ==
    IF l = << >> THEN [ frontier |-> new_frontier, visited |-> visited ]
    ELSE IF Head(l) \in Elements(visited)
         THEN ScanForgetful(Tail(l), new_frontier, visited)
         ELSE ScanForgetful(Tail(l), Append(new_frontier, Head(l)), << Head(l) >>)

\* the loop body without the test for visited uuids
RECURSIVE ScanRevisits(_, _, _)
ScanRevisits(l, new_frontier, visited) ==
    IF l = << >> THEN [ frontier |-> new_frontier, visited |-> visited ]
    ELSE ScanRevisits(Tail(l), Append(new_frontier, Head(l)), Append(visited, Head(l)))

\* the body of the for loops: a uuid not yet visited joins new_frontier and visited
RECURSIVE Scan(_, _, _)
Scan(l, new_frontier, visited) ==
    IF l = << >> THEN [ frontier |-> new_frontier, visited |-> visited ]
    ELSE IF Head(l) \in Elements(visited)
         THEN Scan(Tail(l), new_frontier, visited)
         ELSE Scan(Tail(l), Append(new_frontier, Head(l)), Append(visited, Head(l)))

\* the body of the while loop: the new frontier and the visited list, for every
\* order of the fetched rows and of the keys of the dict
RoundOutcomes(table, frontier, visited) ==
    { Scan(Values(get_children_uuids(rows, frontier), keys), << >>, visited) :
        rows \in ChildrenRowOrders(table, frontier),
        keys \in RowOrders(Elements(frontier)) }

\* a depth that stays as it is
DecrementNot(depth) == depth

\* depth -= 1
Decrement(depth) == IF depth = Infinity THEN Infinity ELSE << depth[1] - 1 >>

\* while len(frontier) > 0 and depth > 0
LoopCondition(frontier, depth) ==
    /\ Len(frontier) > 0
    /\ IF depth = Infinity THEN TRUE ELSE depth[1] > 0

\* get_self_and_descendants from the state of its locals: the lists it may return
RECURSIVE get_self_and_descendants(_, _, _, _)
get_self_and_descendants(table, frontier, visited, depth) ==
    IF LoopCondition(frontier, depth)
    THEN UNION { get_self_and_descendants(table, o.frontier, o.visited, Decrement(depth)) :
                   o \in RoundOutcomes(table, frontier, visited) }
    ELSE { visited }

\* frontier = uuids; visited = list(frontier)
StartWalk(uuids, depth) ==
    /\ walker.pc = "idle"
    /\ walker' = [ pc |-> "loop", frontier |-> uuids, visited |-> uuids, depth |-> depth,
                   uuids |-> uuids, depth0 |-> depth, rounds |-> 0,
                   frontiers |-> << uuids >> ]
    /\ last' = [ NoOp EXCEPT !.op = "call get_self_and_descendants" ]
    /\ UNCHANGED << tables, snap, deleter, instance, saver, queue, worksheetTables >>

\* one round of the while loop, with its query
WalkRound ==
    /\ walker.pc = "loop"
    /\ LoopCondition(walker.frontier, walker.depth)
    /\ \E o \in RoundOutcomes(bundle_dependency, walker.frontier, walker.visited) :
          walker' = [ walker EXCEPT !.frontier = o.frontier,
                                    !.visited = o.visited,
                                    !.depth = Decrement(walker.depth),
                                    !.rounds = walker.rounds + 1,
                                    !.frontiers = Append(walker.frontiers, o.frontier) ]
    /\ UNCHANGED << tables, snap, last, deleter, instance, saver, queue, worksheetTables >>

\* return visited
WalkReturn ==
    /\ walker.pc = "loop"
    /\ ~LoopCondition(walker.frontier, walker.depth)
    /\ walker' = IdleWalker
    /\ last' = [ NoOp EXCEPT !.op = "get_self_and_descendants",
                              !.uuids = walker.uuids,
                              !.depth = walker.depth0,
                              !.visited = walker.visited,
                              !.rounds = walker.rounds,
                              !.frontiers = walker.frontiers ]
    /\ UNCHANGED << tables, snap, deleter, instance, saver, queue, worksheetTables >>

\* a store whose bundle_dependency holds any of the rows
InitWalk ==
    /\ InitWorksheets
    /\ InitBundles
    /\ bundle_dependency \in
          { t \in SUBSET DependencyInputs : Cardinality(t) <= MaxEdges }
    /\ InitPermissions
    /\ InitGroups
    /\ InitCallers

NextWalk ==
    \/ \E uuids \in SeedInputs, depth \in DepthInputs : StartWalk(uuids, depth)
    \/ WalkRound
    \/ WalkReturn

SpecWalk == InitWalk /\ [][NextWalk]_vars

\* one call of get_self_and_descendants on each store, from no seed or one seed,
\* with the unbounded depth or the largest finite depth
NextWalkOnce ==
    \/ /\ last = NoOp
       /\ \E uuids \in { l \in SeedInputs : Len(l) <= 1 },
             depth \in { Infinity, << MaxDepth >> } : StartWalk(uuids, depth)
    \/ WalkRound
    \/ WalkReturn

\* a caller that is inside get_self_and_descendants goes on
SpecWalkFair ==
    InitWalk /\ [][NextWalkOnce]_vars /\ WF_vars(WalkRound) /\ WF_vars(WalkReturn)

(***************************************************************************)
(* Properties of get_self_and_descendants.                                 *)
(***************************************************************************)
IsWalk == last.op = "get_self_and_descendants"

\* the children of the members of S
ChildrenOfSet(S) ==
    { r.child_uuid : r \in { e \in bundle_dependency : e.parent_uuid \in S } }

\* the members of S and what d or fewer parent-to-child edges reach from them
RECURSIVE WithinHops(_, _)
WithinHops(S, d) ==
    IF d = 0 THEN S ELSE WithinHops(S \cup ChildrenOfSet(S), d - 1)

\* the nodes of the graph of a walk: the seeds and the ends of every edge
GraphNodes(uuids) ==
    Elements(uuids) \cup { r.child_uuid : r \in bundle_dependency }
                    \cup { r.parent_uuid : r \in bundle_dependency }

\* the number of hops a depth allows: no path without a repeated node is
\* longer than the number of nodes
Hops(depth, uuids) ==
    IF depth = Infinity THEN Cardinality(GraphNodes(uuids)) ELSE depth[1]

\* C14: get_self_and_descendants(uuids, depth) returns exactly the seeds and
\* the nodes that 1 to depth parent-to-child edges reach from a seed; the
\* seeds only for depth 0, everything reachable for the unbounded depth.
C14_ExactlyWithinDepth ==
    IsWalk =>
        /\ Elements(last.visited) = WithinHops(Elements(last.uuids), Hops(last.depth, last.uuids))
        /\ last.depth = << 0 >> => Elements(last.visited) = Elements(last.uuids)

\* C14 witness: a walk of depth 1 that took a child in and left out a node
\* two edges away
C14_Witness ==
    /\ IsWalk
    /\ last.depth = << 1 >>
    /\ Elements(last.visited) # Elements(last.uuids)
    /\ WithinHops(Elements(last.uuids), 2) # WithinHops(Elements(last.uuids), 1)
    /\ Elements(last.visited) # WithinHops(Elements(last.uuids), 2)

\* depth d1 is less than depth d2
Shallower(d1, d2) ==
    /\ d1 # Infinity
    /\ d2 = Infinity \/ d1[1] < d2[1]

\* C15: what get_self_and_descendants returns for a depth is contained in
\* what it returns for every larger depth, and one more round on the result
\* for the unbounded depth finds no new node.
C15_MonotoneInDepthAndFixedPoint ==
    IsWalk =>
        /\ \A d2 \in DepthInputs :
              Shallower(last.depth, d2) =>
                  \A v2 \in get_self_and_descendants(bundle_dependency, last.uuids,
                                                     last.uuids, d2) :
                      Elements(last.visited) \subseteq Elements(v2)
        /\ last.depth = Infinity =>
              \A o \in RoundOutcomes(bundle_dependency, last.visited, last.visited) :
                  o.frontier = << >>

\* C15 witness: a walk of depth 1 whose result a walk of depth 2 extends
C15_Witness ==
    /\ IsWalk
    /\ last.depth = << 1 >>
    /\ Elements(last.visited) # Elements(last.uuids)
    /\ \E v2 \in get_self_and_descendants(bundle_dependency, last.uuids, last.uuids, << 2 >>) :
          Elements(v2) # Elements(last.visited)

\* no member of list l occurs twice in it
NoRepeat(l) == \A i \in 1..Len(l) : \A j \in 1..Len(l) : l[i] = l[j] => i = j

\* C16: no id occurs twice in the result of get_self_and_descendants and no
\* node is put into a frontier twice, for every edge set and every seed list.
C16_NoIdTwice ==
    IsWalk =>
        /\ NoRepeat(last.visited)
        /\ \A i \in 1..Len(last.frontiers) :
              /\ NoRepeat(last.frontiers[i])
              /\ \A j \in 1..Len(last.frontiers) :
                    i # j => Elements(last.frontiers[i]) \cap Elements(last.frontiers[j]) = {}

\* the rounds of the walk so far are no more than the nodes of its graph
RoundsBounded ==
    walker.pc = "loop" => walker.rounds <= Cardinality(GraphNodes(walker.uuids))

\* C17: get_self_and_descendants ends on every dependency graph, also with
\* cycles, self-loops and the unbounded depth, after no more rounds than the
\* graph has nodes.
C17_WalkTerminates ==
    /\ [] RoundsBounded
    /\ (walker.pc = "loop") ~> (walker.pc = "idle")

\* C17 witness: a walk of unbounded depth over a cycle and a self-loop that
\* took three rounds and ended with an empty frontier
C17_Witness ==
    /\ IsWalk
    /\ last.depth = Infinity
    /\ last.rounds = 3
    /\ last.frontiers[Len(last.frontiers)] = << >>
    /\ \E r \in bundle_dependency : r.child_uuid = r.parent_uuid
    /\ \E r \in bundle_dependency :
          /\ r.child_uuid # r.parent_uuid
          /\ r.child_uuid \in Elements(last.uuids)
          /\ r.parent_uuid \in Elements(last.visited)

(***************************************************************************)
(* BundleModel.search_bundle_uuids.  A keyword is modelled after           *)
(* CONDITION_REGEX has split it: [key, value] for <key>=<value>, and a key *)
(* of NULL for a keyword without '='.                                      *)
(***************************************************************************)
\* limit = 10
DefaultLimit == 10

\* limit = None
NoLimit == << >>

CountKeyword == [ key |-> NULL, value |-> ".count" ]

\* the keywords callers pass: a bundle field, a metadata field, and .count
KeywordInputs ==
    { [ key |-> "state", value |-> READY ],
      [ key |-> "name", value |-> "n1" ],
      CountKeyword }

\* the largest number of keywords of one search
MaxKeywords == 2

KeywordListInputs == SeqsUpTo(KeywordInputs, MaxKeywords)

\* shortcuts.get(key, key)
shortcuts(key) ==
    CASE key = "type" -> "bundle_type"
      [] key = "size" -> "data_size"
      [] key = "worksheet" -> "host_worksheet"
      [] OTHER -> key

\* the keys that name a column of the bundle table
BundleFields == { "bundle_type", "id", "uuid", "data_hash", "state", "owner_id" }

\* the keys .offset and .limit
PagingKeys == { ".offset", ".limit" }

\* the values make_condition takes for an instruction
SpecialValues == { ".sort", ".sort-", ".sum" }

\* no row: the place of a table that is not in the FROM list
NoRow == [ id |-> 0 ]

\* the number a string of digits stands for, as int(value) and as field * 1
\* read it; a string that is no number counts 0 in field * 1
NumberOf(value) ==
    CASE value = "1" -> 1
      [] value = "2" -> 2
      [] value = "5" -> 5
      [] value = "9" -> 9
      [] value = "10" -> 10
      [] OTHER -> 0

\* make_condition: true() for an instruction, and field == value for an
\* ordinary value (the values of the model hold no '%')
make_condition(field, value) ==
    IF value \in SpecialValues THEN TRUE ELSE field = value

\* condition == true(): the keyword joins its table at the top level
IsTopLevel(keyword) == keyword.value \in SpecialValues

\* the keyword is <key>=<value> on a key that is not a column of bundle
IsMetadataKeyword(keyword) ==
    /\ keyword.key # NULL
    /\ shortcuts(keyword.key) \notin BundleFields \cup PagingKeys

\* with_hosts: the bundles that have host worksheets
with_hosts == { r.bundle_uuid : r \in worksheet_item } \ { NULL }

\* the clause of one keyword, on a row b of bundle and a row m of
\* bundle_metadata; None is TRUE here, as a keyword without a clause adds
\* nothing to the conjunction.  The keywords without '=' of the model are
\* .count and .orphan.
KeywordClause(keyword, b, m) ==
    LET key == shortcuts(keyword.key)
    IN  IF keyword.key = NULL
        THEN IF keyword.value = ".orphan" THEN b.uuid \notin with_hosts ELSE TRUE
        ELSE IF key \in PagingKeys
        THEN TRUE
        ELSE IF key \in BundleFields
        THEN make_condition(b[key], keyword.value)
        ELSE IF IsTopLevel(keyword)
        THEN /\ b.uuid = m.bundle_uuid
             /\ m.metadata_key = key
             /\ make_condition(m.metadata_value, keyword.value)
        ELSE b.uuid \in { r.bundle_uuid : r \in
                            { r \in bundle_metadata :
                                /\ r.metadata_key = key
                                /\ make_condition(r.metadata_value, keyword.value) } }

\* and_(*clauses)
RECURSIVE Clauses(_, _, _)
Clauses(keywords, b, m) ==
    IF keywords = << >> THEN TRUE
    ELSE KeywordClause(Head(keywords), b, m) /\ Clauses(Tail(keywords), b, m)

\* cl_bundle.c.owner_id == user_id: rendered as owner_id IS NULL when user_id
\* is None, and as owner_id = :user_id otherwise, which no NULL owner satisfies
access_via_owner(b, user_id) ==
    IF user_id = NULL THEN b.owner_id = NULL
    ELSE b.owner_id # NULL /\ b.owner_id = user_id

\* the access clause on a row b of bundle and a row p of group_bundle_permission
access_via_group(b, p, user_id) ==
    /\ p.object_uuid = b.uuid
    /\ \/ p.group_uuid = PublicGroupUuid
       \/ p.group_uuid \in { m.group_uuid : m \in
                                { r \in user_group : user_id # NULL /\ r.user_id = user_id } }
    /\ p.permission >= GROUP_OBJECT_PERMISSION_READ

\* the tables of the FROM list next to bundle: every table a column of the
\* WHERE clause names outside a subquery
PermissionFrom(user_id) ==
    IF user_id # root_user_id THEN group_bundle_permission ELSE { NoRow }

MetadataFrom(keywords) ==
    IF \E i \in 1..Len(keywords) : IsMetadataKeyword(keywords[i]) /\ IsTopLevel(keywords[i])
    THEN bundle_metadata ELSE { NoRow }

\* the rows of the product of the FROM list that satisfy the WHERE clause
MatchedRows(user_id, keywords) ==
    { c \in { [ b |-> b, p |-> p, m |-> m ] :
                b \in bundle, p \in PermissionFrom(user_id), m \in MetadataFrom(keywords) } :
        /\ Clauses(keywords, c.b, c.m)
        /\ user_id # root_user_id =>
              (access_via_owner(c.b, user_id) \/ access_via_group(c.b, c.p, user_id)) }

\* sort_key = [None]
NoSortKey == << >>

\* offset, limit, count, sort_key and sum_key before the loop over the keywords
DefaultSettings ==
    [ offset |-> 0, limit |-> << DefaultLimit >>, count |-> FALSE,
      sort_key |-> NoSortKey, sum_key |-> NoSortKey ]

\* the column a <key>=<instruction> keyword names
FieldOf(keyword) ==
    IF shortcuts(keyword.key) \in BundleFields
    THEN [ table |-> "bundle", column |-> shortcuts(keyword.key) ]
    ELSE [ table |-> "bundle_metadata", column |-> "metadata_value" ]

\* what one keyword does to offset, limit, count, sort_key and sum_key
ApplyKeyword(settings, keyword) ==
    IF keyword.key = NULL
    THEN IF keyword.value = ".count"
         THEN [ settings EXCEPT !.count = TRUE, !.limit = NoLimit ]
         ELSE settings
    ELSE IF keyword.key = ".offset"
    THEN [ settings EXCEPT !.offset = NumberOf(keyword.value) ]
    ELSE IF keyword.key = ".limit"
    THEN [ settings EXCEPT !.limit = << NumberOf(keyword.value) >> ]
    ELSE IF keyword.value = ".sort"
    THEN [ settings EXCEPT !.sort_key = << [ field |-> FieldOf(keyword), desc |-> FALSE ] >> ]
    ELSE IF keyword.value = ".sort-"
    THEN [ settings EXCEPT !.sort_key = << [ field |-> FieldOf(keyword), desc |-> TRUE ] >> ]
    ELSE IF keyword.value = ".sum"
    THEN [ settings EXCEPT !.sum_key = << [ field |-> FieldOf(keyword), desc |-> FALSE ] >> ]
    ELSE settings

\* the loop over the keywords
RECURSIVE SettingsOf(_, _)
SettingsOf(keywords, settings) ==
    IF keywords = << >> THEN settings
    ELSE SettingsOf(Tail(keywords), ApplyKeyword(settings, Head(keywords)))

\* count = True
IsCount(keywords) == SettingsOf(keywords, DefaultSettings).count

\* limit after the loop over the keywords
LimitOf(keywords) == SettingsOf(keywords, DefaultSettings).limit

\* offset after the loop over the keywords
OffsetOf(keywords) == SettingsOf(keywords, DefaultSettings).offset

\* .offset(offset).limit(limit) on the rows of a result
Cut(rows, offset, limit) ==
    LET n == IF limit = NoLimit \/ Len(rows) - offset < limit[1]
             THEN Len(rows) - offset ELSE limit[1]
    IN  IF n <= 0 THEN << >> ELSE SubSeq(rows, offset + 1, offset + n)

\* field * 1 on a row of the product
SortValue(c, key) ==
    IF key.field.table = "bundle_metadata" THEN NumberOf(c.m.metadata_value)
    ELSE IF key.field.column = "id" THEN c.b.id
    ELSE NumberOf(c.b[key.field.column])

\* an ORDER BY that takes desc(field) for field
InOrderAscending(a, b, desc) == a <= b

\* value a may come before value b under ORDER BY field / desc(field)
InOrder(a, b, desc) == IF desc THEN a >= b ELSE a <= b

\* SELECT DISTINCT bundle.uuid ... ORDER BY: the orders of the distinct uuids
\* of the matched rows; a uuid takes the sort value of one of its rows
OrderedUuids(matched, sort_key) ==
    LET uuids == { c.b.uuid : c \in matched }
        values == { SortValue(c, sort_key[1]) : c \in matched }
        valuesOf(u) == { SortValue(c, sort_key[1]) : c \in { d \in matched : d.b.uuid = u } }
    IN  IF sort_key = NoSortKey THEN RowOrders(uuids)
        ELSE { l \in RowOrders(uuids) :
                 \E f \in [ uuids -> values ] :
                    /\ \A u \in uuids : f[u] \in valuesOf(u)
                    /\ \A i \in 1..Len(l) : \A j \in i..Len(l) :
                          InOrder(f[l[i]], f[l[j]], sort_key[1].desc) }

\* SELECT DISTINCT bundle.uuid: the lists the query may return
SelectDistinctUuids(user_id, keywords) ==
    { Cut(rows, OffsetOf(keywords), LimitOf(keywords)) :
        rows \in OrderedUuids(MatchedRows(user_id, keywords),
                              SettingsOf(keywords, DefaultSettings).sort_key) }

\* sum_key[0] is not None
IsSum(keywords) == SettingsOf(keywords, DefaultSettings).sum_key # NoSortKey

\* SUM over no rows: NULL
NoSum == << >>

\* the sum of field * 1 over the rows of the product
RECURSIVE SumOver(_, _)
SumOver(matched, key) ==
    IF matched = {} THEN 0
    ELSE LET c == CHOOSE d \in matched : TRUE
         IN  SortValue(c, key) + SumOver(matched \ { c }, key)

\* SELECT DISTINCT sum(field * 1): one row, which holds NULL or << the sum >>
\* of every row of the product that satisfies the WHERE clause, cut by offset
\* and limit
SelectSum(user_id, keywords) ==
    LET matched == MatchedRows(user_id, keywords)
        key == SettingsOf(keywords, DefaultSettings).sum_key[1]
        row == IF matched = {} THEN NoSum ELSE << SumOver(matched, key) >>
    IN  Cut(<< row >>, OffsetOf(keywords), LimitOf(keywords))

\* result[0] of a result without a row
IndexError == "IndexError"

\* how search_bundle_uuids ends
SearchOutcome(user_id, keywords) ==
    IF IsSum(keywords) /\ ~IsCount(keywords) /\ SelectSum(user_id, keywords) = << >>
    THEN IndexError ELSE OK

\* what search_bundle_uuids may return: a list of uuids; with .count the
\* number of rows of the query as << n >>; with a sum key and no .count the
\* sum as << n >>, or << >> for None
search_bundle_uuids(user_id, keywords) ==
    IF IsSum(keywords)
    THEN IF IsCount(keywords)
         THEN { << Len(SelectSum(user_id, keywords)) >> }
         ELSE IF SelectSum(user_id, keywords) = << >> THEN { << >> }
         ELSE { SelectSum(user_id, keywords)[1] }
    ELSE IF IsCount(keywords)
    THEN { << Len(rows) >> : rows \in SelectDistinctUuids(user_id, keywords) }
    ELSE SelectDistinctUuids(user_id, keywords)

SearchBundleUuids(user_id, keywords) ==
    /\ \E found \in search_bundle_uuids(user_id, keywords) :
          last' = [ NoOp EXCEPT !.op = "search_bundle_uuids",
                                !.user_id = user_id,
                                !.keywords = keywords,
                                !.matched = { c.b.uuid : c \in MatchedRows(user_id, keywords) },
                                !.found = found,
                                !.result = SearchOutcome(user_id, keywords) ]
    /\ UNCHANGED << tables, snap, procs, queue, worksheetTables >>

NextSearch ==
    \/ \E g \in GroupUuids, o \in BundleUuids, p \in PermissionInputs :
          AddPermission(g, o, p)
    \/ \E g \in GroupUuids, o \in BundleUuids : DeletePermission(g, o)
    \/ \E u \in UserInputs \ { NULL, root_user_id }, g \in GroupUuids \ { PublicGroupUuid } :
          AddUserInGroup(u, g, FALSE)
    \/ \E u \in UserInputs, keywords \in KeywordListInputs :
          SearchBundleUuids(u, keywords)

SpecSearch == Init /\ [][NextSearch]_vars

(***************************************************************************)
(* Properties of search_bundle_uuids.                                      *)
(***************************************************************************)
IsSearch == last.op = "search_bundle_uuids"

\* the principal is the recorded owner of the bundle
Owns(user_id, b) == user_id # NULL /\ b.owner_id = user_id

\* a permission row grants at least READ on the bundle to the public group
\* or to a group the principal is a member of
GrantedRead(user_id, b) ==
    \E r \in ApplicableRows(group_bundle_permission, user_id, b.uuid) :
        r.permission >= GROUP_OBJECT_PERMISSION_READ

\* the uuids of the last search's answer: those listed, and those counted
Answered ==
    IF IsCount(last.keywords) THEN last.matched
    ELSE last.matched \cup { last.found[i] : i \in 1..Len(last.found) }

\* C12: a search by a principal other than root answers with no bundle that
\* the principal neither owns nor is granted READ or more on, through the
\* public group or a group of the principal, whatever the keywords are.
C12_SearchAnswersOnlyAccessible ==
    (IsSearch /\ last.user_id # root_user_id)
        => \A b \in bundle :
              b.uuid \in Answered => (Owns(last.user_id, b) \/ GrantedRead(last.user_id, b))

\* C13: a search by a principal other than root, not cut by offset or limit,
\* lists a bundle that satisfies every keyword exactly if the principal owns
\* it or is granted READ or more on it; an owned bundle is listed whatever
\* the permission table holds.
C13_SearchListsExactlyAccessible ==
    (IsSearch /\ last.user_id # root_user_id /\ ~IsCount(last.keywords))
        => \A b \in { r \in bundle : Clauses(last.keywords, r, NoRow) } :
              (b.uuid \in { last.found[i] : i \in 1..Len(last.found) })
                  <=> (Owns(last.user_id, b) \/ GrantedRead(last.user_id, b))

(***************************************************************************)
(* BundleModel.delete_bundles and remove_data_hash_references as they run: *)
(* _check_not_running is a transaction of its own, the writes are a second *)
(* one.                                                                    *)
(***************************************************************************)
\* the tables the second transaction of delete_bundles deletes from, in the
\* order of its statements
delete_order ==
    << "group_bundle_permission", "worksheet_item", "bundle_metadata",
       "bundle_dependency", "bundle" >>

\* how the DELETE on bundle may end: codalab/model/tables.py decides whether
\* bundle_dependency.parent_uuid is a foreign key to bundle.uuid; if it is,
\* a dependency row left with a deleted parent makes the statement fail
DeleteOutcomes(uuids) ==
    IF \E r \in bundle_dependency : r.parent_uuid \in uuids /\ r.child_uuid \notin uuids
    THEN { OK, IntegrityError }
    ELSE { OK }

\* the first transaction of op on uuids: it raises UsageError, or the caller
\* goes on to the second transaction
CheckNotRunning(op, uuids) ==
    /\ deleter.pc = "idle"
    /\ IF running_uuids(uuids) # {}
       THEN /\ last' = [ NoOp EXCEPT !.op = op, !.targets = uuids, !.result = UsageError ]
            /\ UNCHANGED deleter
       ELSE /\ last' = [ NoOp EXCEPT !.op = "call", !.targets = uuids ]
            /\ deleter' = [ pc |-> "write", op |-> op, uuids |-> uuids ]
    /\ UNCHANGED << tables, snap, walker, instance, saver, queue, worksheetTables >>

\* the second transaction of delete_bundles
DeleteBundlesWrite ==
    /\ deleter.pc = "write"
    /\ deleter.op = "delete_bundles"
    /\ \E outcome \in DeleteOutcomes(deleter.uuids) :
          /\ group_bundle_permission' = Transaction(outcome, group_bundle_permission,
                { r \in group_bundle_permission : r.object_uuid \notin deleter.uuids })
          /\ worksheet_item' = Transaction(outcome, worksheet_item,
                { r \in worksheet_item : r.bundle_uuid \notin deleter.uuids })
          /\ bundle_metadata' = Transaction(outcome, bundle_metadata,
                { r \in bundle_metadata : r.bundle_uuid \notin deleter.uuids })
          /\ bundle_dependency' = Transaction(outcome, bundle_dependency,
                { r \in bundle_dependency : r.child_uuid \notin deleter.uuids })
          /\ bundle' = Transaction(outcome, bundle,
                { r \in bundle : r.uuid \notin deleter.uuids })
          /\ last' = [ NoOp EXCEPT !.op = "delete_bundles", !.targets = deleter.uuids,
                                    !.result = outcome, !.order = delete_order ]
    /\ deleter' = IdleDeleter
    /\ UNCHANGED << nextId, groupTables, snap, walker, instance, saver, queue, worksheetTables >>

\* the second transaction of remove_data_hash_references
RemoveDataHashWrite ==
    /\ deleter.pc = "write"
    /\ deleter.op = "remove_data_hash_references"
    /\ bundle' = { IF r.uuid \in deleter.uuids THEN [ r EXCEPT !.data_hash = NULL ] ELSE r :
                     r \in bundle }
    /\ last' = [ NoOp EXCEPT !.op = "remove_data_hash_references",
                              !.targets = deleter.uuids ]
    /\ deleter' = IdleDeleter
    /\ UNCHANGED << worksheet_item, nextId, bundle_metadata, bundle_dependency,
                    group_bundle_permission, groupTables, snap, walker, instance, saver, queue, worksheetTables >>

(***************************************************************************)
(* BundleModel.batch_update_bundles                                        *)
(***************************************************************************)
\* the update dicts callers pass: a new state, and two that name uuid or id
UpdateInputs ==
    { [ state |-> RUNNING ], [ state |-> READY ], [ uuid |-> "b2" ], [ id |-> 2 ] }

\* no condition: condition=None
NoCondition == << >>

\* the conditions callers pass: none, or << a dict on the state column >>
ConditionInputs == { NoCondition, << [ state |-> RUNNING ] >>, << [ state |-> READY ] >> }

\* the largest number of in-memory bundles of one batch_update_bundles call
MaxBundles == 2

\* the ids of the in-memory bundles callers pass
BundleIdInputs == SeqsUpTo({ 1, 2 }, MaxBundles)

\* the value batch_update_bundles returns
Success == "True"
Failure == "False"

\* make_kwargs_clause on a row, for a dict of plain values
make_kwargs_clause(row, kwargs) == \A key \in DOMAIN kwargs : row[key] = kwargs[key]

\* a row after .values(update)
UpdatedRow(row, update) ==
    [ row EXCEPT !.state = IF "state" \in DOMAIN update THEN update.state ELSE @,
                 !.data_hash = IF "data_hash" \in DOMAIN update THEN update.data_hash ELSE @,
                 !.uuid = IF "uuid" \in DOMAIN update THEN update.uuid ELSE @,
                 !.id = IF "id" \in DOMAIN update THEN update.id ELSE @ ]

\* an update that passes for legal whatever it names
IllegalUpdateNever(update) == FALSE

\* the negation of the precondition: 'id' in update or 'uuid' in update
IllegalUpdate(update) == "id" \in DOMAIN update \/ "uuid" \in DOMAIN update

\* success = result.rowcount == len(bundle_ids)
BatchSuccess(rowcount, n) == rowcount = n

batch_update_bundles(rows, bundles, update, condition) ==
    LET bundle_ids == Elements(bundles)
        matched == { r \in rows :
                       /\ r.id \in bundle_ids
                       /\ condition # NoCondition => make_kwargs_clause(r, condition[1]) }
        rowcount == Cardinality(matched)
        success == BatchSuccess(rowcount, Cardinality(bundle_ids))
    IN  IF IllegalUpdate(update)
        THEN [ result |-> PreconditionFailure, rowcount |-> 0, rows |-> rows,
               in_memory |-> FALSE ]
        ELSE IF bundles = << >>
        THEN [ result |-> Success, rowcount |-> 0, rows |-> rows, in_memory |-> FALSE ]
        ELSE [ result |-> IF success THEN Success ELSE Failure,
               rowcount |-> rowcount,
               \* return success raises nothing: the transaction commits
               rows |-> Transaction(OK, rows,
                            (rows \ matched) \cup { UpdatedRow(r, update) : r \in matched }),
               in_memory |-> success ]

BatchUpdateBundles(bundles, update, condition) ==
    LET done == batch_update_bundles(bundle, bundles, update, condition)
    IN  /\ bundle' = done.rows
        /\ last' = [ NoOp EXCEPT !.op = "batch_update_bundles",
                                  !.result = done.result,
                                  !.rowcount = done.rowcount,
                                  !.n = Cardinality(Elements(bundles)),
                                  !.update = update,
                                  !.before = bundle,
                                  !.in_memory = done.in_memory ]
        /\ UNCHANGED << worksheet_item, nextId, bundle_metadata, bundle_dependency,
                        group_bundle_permission, groupTables, snap, procs, queue, worksheetTables >>

(***************************************************************************)
(* BundleModel.update_bundle                                               *)
(***************************************************************************)
\* an update dict without a 'metadata' sub-dict
NoMetadataUpdate == << >>

\* the update dicts callers pass to update_bundle
UpdateBundleInputs ==
    UpdateInputs \cup { [ metadata |-> [ name |-> "n2" ] ],
                        [ state |-> READY, metadata |-> [ name |-> "n2" ] ] }

\* update.pop('metadata', {})
MetadataUpdate(update) ==
    IF "metadata" \in DOMAIN update THEN update.metadata ELSE NoMetadataUpdate

\* the rows of bundle.to_dict()['metadata'] whose key is in metadata_update
metadata_values(uuid, metadata_update) ==
    { [ bundle_uuid |-> uuid, metadata_key |-> key, metadata_value |-> metadata_update[key] ] :
        key \in DOMAIN metadata_update }

update_bundle(rows, metadata, uuid, update) ==
    LET metadata_update == MetadataUpdate(update)
        matched == { r \in rows : r.uuid = uuid }
        metadata_clause == { r \in metadata : /\ r.bundle_uuid = uuid
                                              /\ r.metadata_key \in DOMAIN metadata_update }
    IN  IF IllegalUpdate(update)
        THEN [ result |-> PreconditionFailure, rows |-> rows, metadata |-> metadata,
               in_memory |-> FALSE ]
        ELSE [ result |-> OK,
               rows |-> (rows \ matched) \cup { UpdatedRow(r, update) : r \in matched },
               metadata |-> (metadata \ metadata_clause)
                               \cup metadata_values(uuid, metadata_update),
               in_memory |-> TRUE ]

UpdateBundle(uuid, update) ==
    LET done == update_bundle(bundle, bundle_metadata, uuid, update)
    IN  /\ bundle' = done.rows
        /\ bundle_metadata' = done.metadata
        /\ last' = [ NoOp EXCEPT !.op = "update_bundle",
                                  !.result = done.result,
                                  !.update = update,
                                  !.before = bundle,
                                  !.matched = bundle_metadata,
                                  !.in_memory = done.in_memory ]
        /\ UNCHANGED << worksheet_item, nextId, bundle_dependency,
                        group_bundle_permission, groupTables, snap, procs, queue, worksheetTables >>

(***************************************************************************)
(* The bundle specification: a store with two saved bundles, the second    *)
(* depending on the first, each on a worksheet and with a permission row.  *)
(***************************************************************************)
InitBundleStore ==
    /\ InitBundles
    /\ InitGroups
    /\ bundle_dependency = { [ child_uuid |-> "b2", parent_uuid |-> "b1",
                               child_path |-> "in" ] }
    /\ worksheet_item =
          add_worksheet_item(add_worksheet_item({}, 1, "w1", <<"b1", NULL, NULL, TYPE_BUNDLE>>),
                             2, "w1", <<"b2", NULL, NULL, TYPE_BUNDLE>>)
    /\ nextId = 3
    /\ group_bundle_permission =
          { [ id |-> 1, group_uuid |-> PublicGroupUuid, object_uuid |-> "b1",
              permission |-> GROUP_OBJECT_PERMISSION_READ ],
            [ id |-> 2, group_uuid |-> "g1", object_uuid |-> "b2",
              permission |-> GROUP_OBJECT_PERMISSION_ALL ] }
    /\ permNextId = 3

InitBundle ==
    /\ InitBundleStore
    /\ InitCallers

DeleterOps == { "delete_bundles", "remove_data_hash_references" }

NextBundle ==
    \/ \E op \in DeleterOps, uuids \in SUBSET BundleUuids : CheckNotRunning(op, uuids)
    \/ DeleteBundlesWrite
    \/ RemoveDataHashWrite
    \/ \E bundles \in BundleIdInputs, update \in UpdateInputs,
          condition \in ConditionInputs : BatchUpdateBundles(bundles, update, condition)
    \/ \E uuid \in BundleUuids, update \in UpdateBundleInputs : UpdateBundle(uuid, update)

SpecBundle == InitBundle /\ [][NextBundle]_vars

(***************************************************************************)
(* Properties of delete_bundles, remove_data_hash_references and           *)
(* batch_update_bundles.                                                   *)
(***************************************************************************)
\* the rows of the dependent tables that refer to one of the uuids
Referring(uuids) ==
    [ group_bundle_permission |-> { r \in group_bundle_permission : r.object_uuid \in uuids },
      worksheet_item |-> { r \in worksheet_item : r.bundle_uuid \in uuids },
      bundle_metadata |-> { r \in bundle_metadata : r.bundle_uuid \in uuids },
      bundle_dependency |-> { r \in bundle_dependency :
                                r.child_uuid \in uuids \/ r.parent_uuid \in uuids } ]

\* C18: after a delete_bundles that succeeded no row of the permission, item,
\* metadata and dependency tables refers to a deleted uuid, as child or as
\* parent, and the statements ran in the order permissions, items, metadata,
\* dependencies, bundles.
C18_NoRowRefersToDeleted ==
    (last.op = "delete_bundles" /\ last.result = OK)
        => /\ \A t \in DOMAIN Referring(last.targets) : Referring(last.targets)[t] = {}
           /\ last.order = << "group_bundle_permission", "worksheet_item", "bundle_metadata",
                               "bundle_dependency", "bundle" >>

\* the step is the first transaction of a delete_bundles or
\* remove_data_hash_references call on uuids of which one is RUNNING
StartsOnRunning ==
    /\ deleter.pc = "idle"
    /\ last'.op \in DeleterOps \cup { "call" }
    /\ \E b \in bundle : b.uuid \in last'.targets /\ b.state = RUNNING

\* C19: a delete_bundles or remove_data_hash_references call that starts
\* with one of its uuids RUNNING ends with UsageError, and deletes no row and
\* clears no data_hash, of the bundles that are not running either.
C19_RunningGuard ==
    [][ StartsOnRunning
            => /\ last'.op \in DeleterOps
               /\ last'.result = UsageError
               /\ deleter'.pc = "idle"
               /\ UNCHANGED tables ]_vars

C19_Witness ==
    /\ last.op = "delete_bundles"
    /\ last.result = UsageError
    /\ \E b \in bundle : b.uuid \in last.targets /\ b.state = RUNNING
    /\ \E b \in bundle : b.uuid \in last.targets /\ b.state # RUNNING
    /\ \A t \in DOMAIN Referring(last.targets) : Referring(last.targets)[t] # {}

IsBatchUpdate == last.op = "batch_update_bundles"

\* C20: a batch_update_bundles that matches another number of rows than the
\* number of distinct bundles given reports failure, has changed no row of
\* bundle and updates no in-memory bundle.
C20_BatchUpdateFailsAsAWhole ==
    (IsBatchUpdate /\ last.result # PreconditionFailure /\ last.n > 0
                   /\ last.rowcount # last.n)
        => /\ last.result = Failure
           /\ bundle = last.before
           /\ ~last.in_memory

IsBundleUpdate == last.op \in { "update_bundle", "batch_update_bundles" }

\* the (id, uuid) pairs of the rows of a bundle table
BundleIdentities(rows) == { [ id |-> r.id, uuid |-> r.uuid ] : r \in rows }

\* C28: an update_bundle or batch_update_bundles call leaves the id and the
\* uuid of every row of bundle as they were, and one whose update dict names
\* 'id' or 'uuid' is rejected with no row written and no in-memory bundle
\* changed.
C28_UpdatesKeepIdentity ==
    IsBundleUpdate =>
        /\ BundleIdentities(bundle) = BundleIdentities(last.before)
        /\ Cardinality(bundle) = Cardinality(last.before)
        /\ ("id" \in DOMAIN last.update \/ "uuid" \in DOMAIN last.update)
              => /\ last.result = PreconditionFailure
                 /\ bundle = last.before
                 /\ ~last.in_memory
                 /\ last.op = "update_bundle" => bundle_metadata = last.matched

\* an update that names uuid was rejected, and one that names none was written
C28_Witness ==
    /\ IsBundleUpdate
    /\ "uuid" \in DOMAIN last.update
    /\ last.result = PreconditionFailure
    /\ \E r \in bundle : r.uuid = "b1" /\ r.state = RUNNING

(***************************************************************************)
(* Properties of add_permission, update_permission and delete_permission.  *)
(***************************************************************************)
\* the rows of the permission table for one (group, object) pair
PairRows(table, group_uuid, object_uuid) ==
    { r \in table : r.group_uuid = group_uuid /\ r.object_uuid = object_uuid }

\* a row without its level
WithoutLevel(r) == [ id |-> r.id, group_uuid |-> r.group_uuid, object_uuid |-> r.object_uuid ]

\* C21: the permission table never holds two rows for one (group, object)
\* pair, and update_permission changes the level of the rows of one pair
\* only and leaves the number of rows as it is.
C21_OneRowPerPair ==
    /\ [] ( \A r1 \in group_bundle_permission : \A r2 \in group_bundle_permission :
              (r1.group_uuid = r2.group_uuid /\ r1.object_uuid = r2.object_uuid) => r1 = r2 )
    /\ [][ last'.op = "update_permission"
             => /\ { WithoutLevel(r) : r \in group_bundle_permission' }
                      = { WithoutLevel(r) : r \in group_bundle_permission }
                /\ Cardinality(group_bundle_permission') = Cardinality(group_bundle_permission)
                /\ \E g \in GroupUuids, o \in BundleUuids :
                      group_bundle_permission' \ PairRows(group_bundle_permission', g, o)
                          = group_bundle_permission \ PairRows(group_bundle_permission, g, o) ]_vars

(***************************************************************************)
(* BundleModel.add_bundle_action, add_bundle_actions, pop_bundle_actions.  *)
(* pop_bundle_actions is two statements in one transaction: a plain SELECT *)
(* and a DELETE of every row.  The source sets no isolation level; unless  *)
(* the store runs the transaction serializably its SELECT takes no lock,   *)
(* and another transaction may commit between the two statements.  The     *)
(* statements are therefore two steps, and the serializable run is the one *)
(* where nothing comes between them.                                       *)
(***************************************************************************)
\* the largest auto-increment id of bundle_action in a run
MaxActionId == 3

\* the largest number of rows of one add_bundle_actions call
MaxActions == 2

\* the (bundle_uuid, action) pairs callers queue
ActionInputs == { << "b1", "kill" >>, << "b2", "kill" >> }

ActionListInputs == SeqsUpTo(ActionInputs, MaxActions)

\* the rows of a list of (bundle_uuid, action) pairs, before they get their ids
action_values(bundle_actions) ==
    [ k \in 1..Len(bundle_actions) |->
        [ id |-> 0, bundle_uuid |-> bundle_actions[k][1], action |-> bundle_actions[k][2] ] ]

\* the history after the rows `rows` were added
LogAdded(log, rows) ==
    [ returned |-> log.returned \o [ k \in 1..Cardinality(rows) |-> 0 ],
      since |-> log.since \cup { r.id : r \in rows } ]

\* the history after a pop returned the rows `results`
LogPopped(log, results) ==
    [ returned |-> [ id \in DOMAIN log.returned |->
                       IF id \in { r.id : r \in results }
                       THEN log.returned[id] + 1 ELSE log.returned[id] ],
      since |-> {} ]

\* add_bundle_actions: do_multirow_insert, which skips an empty list
AddBundleActions(bundle_actions) ==
    LET rows == InsertRows(action_values(bundle_actions), actionNextId)
    IN  /\ actionNextId + Len(bundle_actions) - 1 <= MaxActionId
        /\ bundle_action' = bundle_action \cup rows
        /\ actionNextId' = actionNextId + Len(bundle_actions)
        /\ queue_log' = LogAdded(queue_log, rows)
        /\ last' = [ NoOp EXCEPT !.op = "add_bundle_actions", !.n = Len(bundle_actions) ]
        /\ UNCHANGED << tables, snap, procs, worksheetTables, popper >>

\* add_bundle_action: one row
AddBundleAction(uuid, action) ==
    LET rows == InsertRows(action_values(<< << uuid, action >> >>), actionNextId)
    IN  /\ actionNextId <= MaxActionId
        /\ bundle_action' = bundle_action \cup rows
        /\ actionNextId' = actionNextId + 1
        /\ queue_log' = LogAdded(queue_log, rows)
        /\ last' = [ NoOp EXCEPT !.op = "add_bundle_action", !.n = 1 ]
        /\ UNCHANGED << tables, snap, procs, worksheetTables, popper >>

\* pop_bundle_actions, first statement: Get the actions
PopSelect(c) ==
    /\ popper[c].pc = "idle"
    /\ popper' = [ popper EXCEPT ![c] = [ pc |-> "delete", results |-> bundle_action ] ]
    /\ last' = [ NoOp EXCEPT !.op = "call pop_bundle_actions", !.caller = c ]
    /\ UNCHANGED << tables, snap, procs, worksheetTables, bundle_action, actionNextId,
                    queue_log >>

\* a DELETE that removes no row
DeleteNothing(table, results) == table

\* cl_bundle_action.delete(): Delete all actions
DeleteAll(table, results) == {}

\* pop_bundle_actions, second statement and return
PopDelete(c) ==
    /\ popper[c].pc = "delete"
    /\ bundle_action' = DeleteAll(bundle_action, popper[c].results)
    /\ popper' = [ popper EXCEPT ![c] = IdlePopper ]
    /\ queue_log' = LogPopped(queue_log, popper[c].results)
    /\ last' = [ NoOp EXCEPT !.op = "pop_bundle_actions", !.caller = c,
                             !.returned = popper[c].results,
                             !.since = queue_log.since ]
    /\ UNCHANGED << tables, snap, procs, worksheetTables, actionNextId >>

\* no caller is inside pop_bundle_actions
NoPopRunning == \A c \in Poppers : popper[c].pc = "idle"

\* the calls executed one at a time
NextQueue ==
    \/ NoPopRunning /\ \E a \in ActionInputs : AddBundleAction(a[1], a[2])
    \/ NoPopRunning /\ \E l \in ActionListInputs : AddBundleActions(l)
    \/ NoPopRunning /\ \E c \in Poppers : PopSelect(c)
    \/ \E c \in Poppers : PopDelete(c)

SpecQueue == Init /\ [][NextQueue]_vars

\* the calls of concurrent callers
NextQueueConcurrent ==
    \/ \E a \in ActionInputs : AddBundleAction(a[1], a[2])
    \/ \E c \in Poppers : PopSelect(c)
    \/ \E c \in Poppers : PopDelete(c)

SpecQueueConcurrent == Init /\ [][NextQueueConcurrent]_vars

(***************************************************************************)
(* Properties of the bundle action queue.                                  *)
(***************************************************************************)
IsPop == last.op = "pop_bundle_actions"

\* the ids of the rows added so far
AddedIds == 1..(actionNextId - 1)

\* the ids of the rows some caller has read and not yet returned
HeldIds == UNION { { r.id : r \in popper[c].results } : c \in Poppers }

\* C22: with the calls executed one at a time, a pop returns exactly the rows
\* added since the previous pop and leaves the queue empty, and every added
\* row is returned by exactly one pop, the first after it was added.
C22_PopReturnsWhatWasAdded ==
    /\ IsPop => /\ { r.id : r \in last.returned } = last.since
                /\ bundle_action = {}
    /\ \A id \in AddedIds :
          queue_log.returned[id] = IF id \in queue_log.since THEN 0 ELSE 1

C22_Witness ==
    /\ IsPop
    /\ Cardinality(last.returned) = 2
    /\ \E id \in AddedIds : id \notin last.since /\ queue_log.returned[id] = 1
    /\ \E r1 \in last.returned : \E r2 \in last.returned :
          r1.id # r2.id /\ r1.bundle_uuid = r2.bundle_uuid /\ r1.action = r2.action

QueryBundles ==
    { [ id |-> 1, uuid |-> "b1", state |-> READY, owner_id |-> "u1",
        data_hash |-> "h1", bundle_type |-> "program" ],
      [ id |-> 2, uuid |-> "b2", state |-> READY, owner_id |-> NULL,
        data_hash |-> "h2", bundle_type |-> "program" ],
      [ id |-> 3, uuid |-> "b3", state |-> READY, owner_id |-> "u1",
        data_hash |-> "h3", bundle_type |-> "dataset" ] }

\* the data_size of b2 in the stores: larger than that of b1 as a number and
\* smaller as a string, equal to it, or not recorded
QuerySizeInputs == { << "10" >>, << "9" >>, << >> }

QueryMetadata(size) ==
    { [ bundle_uuid |-> "b1", metadata_key |-> "data_size", metadata_value |-> "9" ],
      [ bundle_uuid |-> "b3", metadata_key |-> "data_size", metadata_value |-> "2" ],
      [ bundle_uuid |-> "b1", metadata_key |-> "name", metadata_value |-> "n1" ] }
    \cup { [ bundle_uuid |-> "b2", metadata_key |-> "data_size", metadata_value |-> size[i] ] :
             i \in 1..Len(size) }

\* the worksheet items of the stores: none, b1 on a worksheet, b1 twice and b3
QueryItems ==
    LET one == add_worksheet_item({}, 1, "w1", <<"b1", NULL, NULL, TYPE_BUNDLE>>)
        two == add_worksheet_item(one, 2, "w2", <<"b1", NULL, NULL, TYPE_BUNDLE>>)
        three == add_worksheet_item(two, 3, "w1", <<NULL, NULL, "x", TYPE_MARKUP>>)
    IN  { {}, one, add_worksheet_item(three, 4, "w2", <<"b3", NULL, NULL, TYPE_BUNDLE>>) }

\* the permission rows of the stores: none, b2 readable by everyone, b2
\* granted twice and b3 with a row of level NONE
QueryPermissions ==
    LET public == [ id |-> 1, group_uuid |-> PublicGroupUuid, object_uuid |-> "b2",
                    permission |-> GROUP_OBJECT_PERMISSION_READ ]
        group == [ id |-> 2, group_uuid |-> "g1", object_uuid |-> "b2",
                   permission |-> GROUP_OBJECT_PERMISSION_ALL ]
        none == [ id |-> 3, group_uuid |-> PublicGroupUuid, object_uuid |-> "b3",
                  permission |-> GROUP_OBJECT_PERMISSION_NONE ]
    IN  { {}, { none }, { public }, { public, group, none } }

\* the memberships of the stores: none, or u1 in g1
QueryMemberships ==
    { {}, { [ id |-> 1, group_uuid |-> "g1", user_id |-> "u1", is_admin |-> FALSE ] } }

InitQuery ==
    /\ bundle = QueryBundles
    /\ \E size \in QuerySizeInputs : bundle_metadata = QueryMetadata(size)
    /\ bundle_dependency = {}
    /\ worksheet_item \in QueryItems
    /\ nextId = 5
    /\ group_bundle_permission \in QueryPermissions
    /\ permNextId = 4
    /\ cl_group = { [ uuid |-> PublicGroupUuid, name |-> "public", owner_id |-> NULL,
                      user_defined |-> FALSE ],
                    [ uuid |-> "g1", name |-> "g1", owner_id |-> "u1",
                      user_defined |-> TRUE ] }
    /\ user_group \in QueryMemberships
    /\ userGroupNextId = 2
    /\ InitCallers

OrphanKeyword == [ key |-> NULL, value |-> ".orphan" ]

\* the keywords of the query specification
QueryKeywordInputs ==
    { [ key |-> "type", value |-> "program" ],
      [ key |-> "size", value |-> ".sort-" ],
      [ key |-> "size", value |-> ".sort" ],
      [ key |-> ".limit", value |-> "5" ],
      [ key |-> ".limit", value |-> "1" ],
      [ key |-> ".offset", value |-> "1" ],
      OrphanKeyword,
      CountKeyword }

\* the largest number of keywords of one search of the query specification
MaxQueryKeywords == 3

\* one search of each store
NextQuery ==
    /\ last = NoOp
    /\ \E u \in UserInputs, keywords \in SeqsUpTo(QueryKeywordInputs, MaxQueryKeywords) :
          SearchBundleUuids(u, keywords)

SpecQuery == InitQuery /\ [][NextQuery]_vars

(***************************************************************************)
(* Properties of the keywords of search_bundle_uuids.                      *)
(***************************************************************************)
\* the uuids the last search listed
Listed == { last.found[i] : i \in 1..Len(last.found) }

\* the bundle is visible to the principal: to root every bundle, to another
\* principal the bundles it owns or is granted READ or more on
Visible(user_id, b) ==
    user_id = root_user_id \/ Owns(user_id, b) \/ GrantedRead(user_id, b)

\* the bundle is an item of no worksheet
IsOrphan(b) == \A r \in worksheet_item : r.bundle_uuid # b.uuid

\* C24: the single keyword .orphan lists exactly the bundles visible to the
\* principal that are an item of no worksheet.
C24_OrphanListsExactlyTheOrphans ==
    (IsSearch /\ last.keywords = << OrphanKeyword >>)
        => Listed = { b.uuid : b \in { r \in bundle : Visible(last.user_id, r) /\ IsOrphan(r) } }

\* the recorded data_size values of a bundle, as numbers
SizesOf(uuid) ==
    { NumberOf(r.metadata_value) : r \in
        { m \in bundle_metadata : m.bundle_uuid = uuid /\ m.metadata_key = "data_size" } }

\* the keywords of list `keywords` on key `key`
KeywordsOn(keywords, key) == { i \in 1..Len(keywords) : keywords[i].key = key }

\* list l is in ascending (descending) order of data_size
SortedBySize(l, desc) ==
    \A i \in 1..Len(l) : \A j \in i..Len(l) :
        \E a \in SizesOf(l[i]) : \E b \in SizesOf(l[j]) : IF desc THEN a >= b ELSE a <= b

SatisfiesFilters(b, keywords) ==
    \A i \in 1..Len(keywords) :
        /\ keywords[i] = [ key |-> "type", value |-> "program" ] => b.bundle_type = "program"
        /\ keywords[i] = OrphanKeyword => IsOrphan(b)
        /\ keywords[i].key = "size" => SizesOf(b.uuid) # {}

\* C26: with .count the search returns the number of the bundles that
\* satisfy the filters and are visible to the principal, whatever the default
\* limit is; without .count and .limit it lists no more than 10 bundles.
C26_CountIsNotCapped ==
    /\ (IsSearch /\ IsCount(last.keywords))
          => last.found = << Cardinality({ b \in bundle :
                                  /\ Visible(last.user_id, b)
                                  /\ SatisfiesFilters(b, last.keywords) }) >>
    /\ (IsSearch /\ ~IsCount(last.keywords) /\ KeywordsOn(last.keywords, ".limit") = {})
          => Len(last.found) <= DefaultLimit

(***************************************************************************)
(* BundleModel.batch_get_all_groups.  A filter dict is << >> for None and  *)
(* << dict >> otherwise.                                                   *)
(***************************************************************************)
NoFilters == << >>

\* the filter dicts callers pass
SpecFilterInputs == { NoFilters, << [ name |-> "g1" ] >> }
GroupFilterInputs == { NoFilters, << [ owner_id |-> "u1" ] >> }
UserGroupFilterInputs == { NoFilters, << [ user_id |-> "u1" ] >> }

\* make_kwargs_clause of a filter dict that may be None
FilterClause(row, filters) == filters = NoFilters \/ make_kwargs_clause(row, filters[1])

\* fetch_cols0 and fetch_cols1: a row of group with user_id and is_admin
GroupRow(g, is_admin) ==
    [ uuid |-> g.uuid, name |-> g.name, owner_id |-> g.owner_id,
      user_id |-> g.owner_id, is_admin |-> is_admin ]

\* q0: the public group
q0(spec_filters) ==
    { GroupRow(g, FALSE) : g \in
        { r \in cl_group : FilterClause(r, spec_filters) /\ r.uuid = PublicGroupUuid } }

\* q1: the groups that satisfy spec_filters and group_filters, None without both
q1(spec_filters, group_filters) ==
    IF spec_filters = NoFilters /\ group_filters = NoFilters THEN {}
    ELSE { GroupRow(g, TRUE) : g \in
             { r \in cl_group : FilterClause(r, spec_filters) /\ FilterClause(r, group_filters) } }

\* q2: the groups joined with their memberships, None without both filters
q2(spec_filters, user_group_filters) ==
    IF spec_filters = NoFilters /\ user_group_filters = NoFilters THEN {}
    ELSE { [ uuid |-> j.g.uuid, name |-> j.g.name, owner_id |-> j.g.owner_id,
             user_id |-> j.m.user_id, is_admin |-> j.m.is_admin ] : j \in
             { k \in { [ g |-> g, m |-> m ] : g \in cl_group, m \in user_group } :
                 /\ k.g.uuid = k.m.group_uuid
                 /\ FilterClause(k.g, spec_filters)
                 /\ FilterClause(k.m, user_group_filters) } }

\* union(q0, q1, q2): a set of rows
UnionRows(spec_filters, group_filters, user_group_filters) ==
    q0(spec_filters) \cup q1(spec_filters, group_filters)
                     \cup q2(spec_filters, user_group_filters)

\* {row['uuid']: dict(row) for row in rows}: a later row of a uuid replaces
\* an earlier one
LastPerUuid(rows) ==
    { rows[i] : i \in { k \in 1..Len(rows) :
                          \A j \in (k + 1)..Len(rows) : rows[j].uuid # rows[k].uuid } }

\* what batch_get_all_groups may return, as a set of row dicts
batch_get_all_groups(spec_filters, group_filters, user_group_filters) ==
    { LastPerUuid(rows) :
        rows \in RowOrders(UnionRows(spec_filters, group_filters, user_group_filters)) }

BatchGetAllGroups(spec_filters, group_filters, user_group_filters) ==
    /\ \E values \in batch_get_all_groups(spec_filters, group_filters, user_group_filters) :
          last' = [ NoOp EXCEPT !.op = "batch_get_all_groups",
                                !.before = UnionRows(spec_filters, group_filters,
                                                     user_group_filters),
                                !.returned = values ]
    /\ UNCHANGED << tables, snap, procs, queue, worksheetTables >>

\* the largest auto-increment id of user_group in a run of the group listing
MaxMemberships == 2

\* add_user_in_group within the ids of the group listing
AddMembership(user_id, group_uuid, is_admin) ==
    /\ userGroupNextId <= MaxMemberships
    /\ user_group' = user_group \cup
          { [ id |-> userGroupNextId, group_uuid |-> group_uuid,
              user_id |-> user_id, is_admin |-> is_admin ] }
    /\ userGroupNextId' = userGroupNextId + 1
    /\ last' = [ NoOp EXCEPT !.op = "add_user_in_group" ]
    /\ UNCHANGED << worksheet_item, nextId, bundleTables, group_bundle_permission,
                    permNextId, cl_group, snap, procs, queue, worksheetTables >>

NextGroups ==
    \/ \E u \in { "u1", "u2" }, g \in GroupUuids, is_admin \in BOOLEAN :
          AddMembership(u, g, is_admin)
    \/ \E u \in { "u1", "u2" }, g \in GroupUuids : DeleteUserInGroup(u, g)
    \/ \E s \in SpecFilterInputs, g \in GroupFilterInputs, m \in UserGroupFilterInputs :
          BatchGetAllGroups(s, g, m)

SpecGroups == Init /\ [][NextGroups]_vars

(***************************************************************************)
(* Properties of batch_get_all_groups.                                     *)
(***************************************************************************)
IsGroupListing == last.op = "batch_get_all_groups"

\* C27: batch_get_all_groups returns one row per group uuid, and of the rows
\* the three branches produce for a group it keeps one of highest privilege
\* (is_admin true before false), in whatever order the store returns the
\* rows of the union.
C27_OneRowOfHighestPrivilege ==
    IsGroupListing =>
        /\ \A r1 \in last.returned : \A r2 \in last.returned : r1.uuid = r2.uuid => r1 = r2
        /\ { r.uuid : r \in last.returned } = { r.uuid : r \in last.before }
        /\ \A r \in last.returned :
              (\E other \in last.before : other.uuid = r.uuid /\ other.is_admin) => r.is_admin

(***************************************************************************)
(* BundleModel.__init__, create_tables and _create_default_groups.  The    *)
(* read of batch_get_groups and the insert of create_group are two         *)
(* transactions, so they are two steps of an instance.                     *)
(***************************************************************************)
\* self.public_group_uuid = '' of __init__
NoPublicGroupUuid == ""

\* a BundleModel whose constructor has reached self.create_tables()
NewInstance == [ pc |-> "idle", groups |-> {}, public_group_uuid |-> NoPublicGroupUuid ]

\* the values spec_util.generate_uuid() can return
GeneratedUuids == { "0x1", "0x2", "0x3" }

\* batch_get_groups(**kwargs): one row dict per uuid
batch_get_groups(groups, kwargs) == { r \in groups : make_kwargs_clause(r, kwargs) }

\* create_group(group_dict)
create_group(groups, group_dict) == groups \cup { group_dict }

\* groups = self.batch_get_groups(name='public', user_defined=False)
GetDefaultGroups(i) ==
    /\ instance[i].pc = "idle"
    /\ instance' = [ instance EXCEPT ![i].pc = "fetched",
                         ![i].groups = batch_get_groups(cl_group,
                                           [ name |-> "public", user_defined |-> FALSE ]) ]
    /\ last' = [ NoOp EXCEPT !.op = "call create_tables" ]
    /\ UNCHANGED << tables, snap, walker, deleter, saver, queue, worksheetTables >>

\* the rest of _create_default_groups: create the group when none was read,
\* or take groups[0], and keep its uuid
CreateDefaultGroups(i) ==
    /\ instance[i].pc = "fetched"
    /\ IF instance[i].groups = {}
       THEN \E uuid \in GeneratedUuids \ { r.uuid : r \in cl_group } :
               /\ cl_group' = create_group(cl_group,
                                  [ uuid |-> uuid, name |-> "public", owner_id |-> NULL,
                                    user_defined |-> FALSE ])
               /\ instance' = [ instance EXCEPT ![i] =
                                  [ pc |-> "idle", groups |-> {}, public_group_uuid |-> uuid ] ]
       ELSE \E group_dict \in instance[i].groups :
               /\ cl_group' = cl_group
               /\ instance' = [ instance EXCEPT ![i] =
                                  [ pc |-> "idle", groups |-> {},
                                    public_group_uuid |-> group_dict.uuid ] ]
    /\ last' = [ NoOp EXCEPT !.op = "create_tables" ]
    /\ UNCHANGED << worksheet_item, nextId, bundleTables, group_bundle_permission,
                    permNextId, user_group, userGroupNextId, snap, walker, deleter, saver, queue, worksheetTables >>

\* a store in which no table holds a row, and two BundleModel objects under
\* construction
InitCreateTables ==
    /\ worksheet_item = {}
    /\ nextId = 1
    /\ bundle = {}
    /\ bundle_metadata = {}
    /\ bundle_dependency = {}
    /\ group_bundle_permission = {}
    /\ permNextId = 1
    /\ cl_group = {}
    /\ user_group = {}
    /\ userGroupNextId = 1
    /\ snap = [ c \in Writers |-> NoSnap ]
    /\ last = NoOp
    /\ walker = IdleWalker
    /\ deleter = IdleDeleter
    /\ instance = [ i \in Instances |-> NewInstance ]
    /\ saver = [ c \in Savers |-> IdleSaver ]
    /\ InitQueue
    /\ worksheet = {}
    /\ group_worksheet_permission = {}

\* no other instance is inside create_tables
NoCreateRunning(i) == \A j \in Instances \ { i } : instance[j].pc = "idle"

\* create_tables calls one after the other
NextCreateTablesSequential ==
    \/ \E i \in Instances : NoCreateRunning(i) /\ GetDefaultGroups(i)
    \/ \E i \in Instances : CreateDefaultGroups(i)

SpecCreateTablesSequential == InitCreateTables /\ [][NextCreateTablesSequential]_vars

\* create_tables calls of two processes, interleaved
NextCreateTables ==
    \/ \E i \in Instances : GetDefaultGroups(i)
    \/ \E i \in Instances : CreateDefaultGroups(i)

SpecCreateTables == InitCreateTables /\ [][NextCreateTables]_vars

(***************************************************************************)
(* Properties of create_tables.                                            *)
(***************************************************************************)
\* the system-defined groups named public
PublicGroups == { r \in cl_group : r.name = "public" /\ ~r.user_defined }

\* every instance is constructed and outside create_tables
AllConstructed ==
    \A i \in Instances : instance[i].pc = "idle"
                            /\ instance[i].public_group_uuid # NoPublicGroupUuid

\* C29: once every model is constructed and no create_tables call is under
\* way, the store holds exactly one system-defined group named public and
\* the public_group_uuid of every model is the uuid of that group.
C29_OnePublicGroup ==
    AllConstructed =>
        /\ Cardinality(PublicGroups) = 1
        /\ \A i \in Instances : \A g \in PublicGroups : instance[i].public_group_uuid = g.uuid

(***************************************************************************)
(* Properties of add_shadow_worksheet_items.                               *)
(***************************************************************************)
\* the step is a call of add_shadow_worksheet_items
IsShadow == last'.op = "add_shadow_worksheet_items"

\* the rows of a fetched item list that were in the table before the step
Earlier(s) == SelectSeq(s, LAMBDA r : r \in worksheet_item)

\* in the item list s every earlier item of bundle old is followed by an
\* item of bundle new
ShadowFollows(s, old, new) ==
    \A i \in 1..Len(s) :
        (s[i] \in worksheet_item /\ s[i].bundle_uuid = old)
            => i < Len(s) /\ s[i + 1].bundle_uuid = new

\* C30: after add_shadow_worksheet_items(old, new) a fetch of any worksheet
\* returns, right after each item that referenced old before the call, an
\* item that references new, whether the sort_key of the old item is NULL or
\* set, and the items that were there before keep their relative order.
C30_ShadowFollowsOld ==
    [][ IsShadow
          => \A w \in WorksheetUuids :
                \E post \in FetchItems(worksheet_item', w) :
                    /\ ShadowFollows(post, last'.old, last'.new)
                    /\ Earlier(post) \in FetchItems(worksheet_item, w) ]_vars

(***************************************************************************)
(* Properties of add_worksheet_item.                                       *)
(***************************************************************************)
\* the step is a call of add_worksheet_item
IsAdd == last'.op = "add_worksheet_item"

\* C31: right after add_worksheet_item every fetch of the item's worksheet
\* returns the added item last and the items that were there before in an
\* order they could be fetched in before the call, whatever add_worksheet_item,
\* add_shadow_worksheet_items and update_worksheet calls made from snapshots
\* came before.
C31_AddedItemIsLast ==
    [][ IsAdd
          => /\ Cardinality(worksheet_item' \ worksheet_item) = 1
             /\ \A post \in FetchItems(worksheet_item', last'.ws) :
                   /\ post[Len(post)] \notin worksheet_item
                   /\ Earlier(post) \in FetchItems(worksheet_item, last'.ws) ]_vars

\* an item was added to a worksheet that holds an item with a sort key and a
\* shadow item
C31_Witness ==
    /\ last.op = "add_worksheet_item"
    /\ \E r \in worksheet_item : r.worksheet_uuid = last.ws /\ r.sort_key # NoKey
    /\ \E r \in worksheet_item : r.worksheet_uuid = last.ws /\ r.bundle_uuid = "b2"
    /\ Cardinality({ r \in worksheet_item : r.worksheet_uuid = last.ws }) >= 3

(***************************************************************************)
(* The aggregate specification: one search with a sum key, a sort key on   *)
(* another metadata key and filters, over the stores of the query          *)
(* specification.                                                          *)
(***************************************************************************)
SumKeyword == [ key |-> "size", value |-> ".sum" ]

\* the keywords of the aggregate specification
AggregateKeywordInputs ==
    { SumKeyword,
      [ key |-> "name", value |-> ".sort" ],
      [ key |-> "name", value |-> "n1" ],
      [ key |-> "type", value |-> "program" ],
      [ key |-> ".offset", value |-> "1" ],
      CountKeyword }

\* the largest number of keywords of one search of the aggregate specification
MaxAggregateKeywords == 3

\* one search of each store
NextAggregate ==
    /\ last = NoOp
    /\ \E u \in UserInputs, keywords \in SeqsUpTo(AggregateKeywordInputs, MaxAggregateKeywords) :
          SearchBundleUuids(u, keywords)

SpecAggregate == InitQuery /\ [][NextAggregate]_vars

(***************************************************************************)
(* Properties of the sum key of search_bundle_uuids.                       *)
(***************************************************************************)
\* the keywords are the sum key and filters: type=program, name=n1 and .count
SumWithFilters(keywords) ==
    /\ \E i \in 1..Len(keywords) : keywords[i] = SumKeyword
    /\ \A i \in 1..Len(keywords) :
          keywords[i] \in { SumKeyword, CountKeyword,
                            [ key |-> "type", value |-> "program" ],
                            [ key |-> "name", value |-> "n1" ] }

\* the bundle has a data_size and satisfies the filters of the keywords
Summed(b, keywords) ==
    /\ SizesOf(b.uuid) # {}
    /\ \A i \in 1..Len(keywords) :
          /\ keywords[i] = [ key |-> "type", value |-> "program" ] => b.bundle_type = "program"
          /\ keywords[i] = [ key |-> "name", value |-> "n1" ]
                => \E m \in bundle_metadata : /\ m.bundle_uuid = b.uuid
                                              /\ m.metadata_key = "name"
                                              /\ m.metadata_value = "n1"

\* the sum of the data_size of the bundles of a set, each counted once
RECURSIVE TotalSize(_)
TotalSize(bundles) ==
    IF bundles = {} THEN 0
    ELSE LET b == CHOOSE r \in bundles : TRUE
         IN  (CHOOSE n \in SizesOf(b.uuid) : TRUE) + TotalSize(bundles \ { b })

\* C32: a search with size=.sum returns the sum of data_size over the bundles
\* that satisfy the filters and are visible to the principal, each counted
\* once however many permission rows grant access to it, and also when
\* .count is among the keywords.
C32_SumCountsEachBundleOnce ==
    (IsSearch /\ SumWithFilters(last.keywords))
        => LET summed == { b \in bundle : /\ Visible(last.user_id, b)
                                          /\ Summed(b, last.keywords) }
           IN  summed # {} => last.found = << TotalSize(summed) >>

\* the uuids of the bundles a search of the principal with the keywords matches
MatchedUuids(user_id, keywords) == { c.b.uuid : c \in MatchedRows(user_id, keywords) }

\* the bundles every keyword of the list matches when it is the only keyword
MatchedByEach(user_id, keywords) ==
    { u \in MatchedUuids(user_id, << >>) :
        \A i \in 1..Len(keywords) : u \in MatchedUuids(user_id, << keywords[i] >>) }

\* C33: the bundles a list of keywords matches, before offset and limit, are
\* the bundles that each of its keywords matches alone, also when two of the
\* keywords name different metadata keys with .sort or .sum.
C33_MatchIsIntersection ==
    IsSearch => last.matched = MatchedByEach(last.user_id, last.keywords)

(***************************************************************************)
(* Properties of delete_bundles and remove_data_hash_references next to    *)
(* concurrent updates.                                                     *)
(***************************************************************************)
\* the step is the second transaction of delete_bundles or
\* remove_data_hash_references, and it commits
DeleterWrites ==
    /\ deleter.pc = "write"
    /\ last'.op \in DeleterOps
    /\ last'.result = OK

\* C34: whatever updates run between the two transactions of delete_bundles
\* or remove_data_hash_references, the second transaction deletes no bundle
\* row, and clears no data_hash, of a bundle whose stored state is RUNNING.
C34_NoRunningBundleIsDeleted ==
    [][ DeleterWrites
          => \A b \in bundle : b.uuid \in last'.targets => b.state # RUNNING ]_vars

(***************************************************************************)
(* BundleModel.save_bundle.  The read of batch_get_bundles and the insert  *)
(* are two transactions, so they are two steps of a caller.  An in-memory  *)
(* bundle is [ value, dependencies, metadata ]: the row dict of            *)
(* bundle.to_dict() and its two popped lists, as sets of rows.             *)
(***************************************************************************)
\* the in-memory bundles callers save: one with the uuid of a stored bundle,
\* two with the same new uuid, and one with another new uuid
SaveInputs ==
    { [ value |-> [ id |-> 0, uuid |-> "b1", state |-> READY, owner_id |-> "u1",
                    data_hash |-> "h1", bundle_type |-> "program" ],
        dependencies |-> {},
        metadata |-> { [ bundle_uuid |-> "b1", metadata_key |-> "name",
                         metadata_value |-> "copy" ] } ],
      [ value |-> [ id |-> 0, uuid |-> "b3", state |-> READY, owner_id |-> "u1",
                    data_hash |-> "h3", bundle_type |-> "run" ],
        dependencies |-> { [ child_uuid |-> "b3", parent_uuid |-> "b1",
                             child_path |-> "in" ] },
        metadata |-> { [ bundle_uuid |-> "b3", metadata_key |-> "name",
                         metadata_value |-> "n3" ] } ],
      [ value |-> [ id |-> 0, uuid |-> "b3", state |-> READY, owner_id |-> NULL,
                    data_hash |-> "h3", bundle_type |-> "run" ],
        dependencies |-> {},
        metadata |-> {} ],
      [ value |-> [ id |-> 0, uuid |-> "b4", state |-> READY, owner_id |-> "u1",
                    data_hash |-> "h4", bundle_type |-> "dataset" ],
        dependencies |-> {},
        metadata |-> { [ bundle_uuid |-> "b4", metadata_key |-> "name",
                         metadata_value |-> "n4" ] } ] }

\* batch_get_bundles(uuid=uuid): the stored bundles of the uuid
batch_get_bundles(rows, uuid) == { r \in rows : make_kwargs_clause(r, [ uuid |-> uuid ]) }

\* result.lastrowid of an insert into bundle: no row of bundle is deleted in
\* the runs of save_bundle, so the next id is above every id of the table
BundleNextId(rows) ==
    IF rows = {} THEN 1
    ELSE 1 + CHOOSE m \in { r.id : r \in rows } : \A r \in rows : r.id <= m

\* an insert into a bundle table that has no key on uuid
InsertOutcomeNoKey(rows, uuid) == OK

\* how the insert into bundle ends: the bundle table is keyed by uuid, so
\* the insert of a uuid that is stored fails
InsertOutcome(rows, uuid) ==
    IF \E r \in rows : r.uuid = uuid THEN IntegrityError ELSE OK

\* bundle.validate(), to_dict() and batch_get_bundles(uuid=bundle.uuid)
SaveCheck(c, b) ==
    /\ saver[c].pc = "idle"
    /\ IF batch_get_bundles(bundle, b.value.uuid) # {}
       THEN /\ last' = [ NoOp EXCEPT !.op = "save_bundle", !.saved = << b >>,
                                     !.before = bundle ]
            /\ UNCHANGED saver
       ELSE /\ last' = [ NoOp EXCEPT !.op = "call save_bundle", !.saved = << b >> ]
            /\ saver' = [ saver EXCEPT ![c] = [ pc |-> "insert", bundle |-> << b >> ] ]
    /\ UNCHANGED << tables, snap, walker, deleter, instance, queue, worksheetTables >>

\* the transaction that inserts the bundle row and its dependency and
\* metadata rows
SaveInsert(c) ==
    /\ saver[c].pc = "insert"
    /\ LET b == saver[c].bundle[1]
           outcome == InsertOutcome(bundle, b.value.uuid)
       IN  /\ bundle' = Transaction(outcome, bundle,
                            bundle \cup InsertRows(<< b.value >>, BundleNextId(bundle)))
           /\ bundle_dependency' = Transaction(outcome, bundle_dependency,
                                       bundle_dependency \cup b.dependencies)
           /\ bundle_metadata' = Transaction(outcome, bundle_metadata,
                                     bundle_metadata \cup b.metadata)
           /\ last' = [ NoOp EXCEPT !.op = "save_bundle", !.saved = << b >>,
                                    !.before = bundle, !.result = outcome ]
    /\ saver' = [ saver EXCEPT ![c] = IdleSaver ]
    /\ UNCHANGED << worksheet_item, nextId, group_bundle_permission, groupTables,
                    snap, walker, deleter, instance, queue, worksheetTables >>

\* save_bundle calls of two callers, interleaved
NextSave ==
    \/ \E c \in Savers, b \in SaveInputs : SaveCheck(c, b)
    \/ \E c \in Savers : SaveInsert(c)

SpecSave == Init /\ [][NextSave]_vars

(***************************************************************************)
(* Properties of save_bundle.                                              *)
(***************************************************************************)
\* the step is the end of a save_bundle call
IsSave == last'.op = "save_bundle"

\* the step inserts the bundle row of b with its dependency and metadata rows
SavesAll(b) ==
    /\ \E r \in bundle' : /\ r \notin bundle
                          /\ bundle' = bundle \cup { r }
                          /\ [ r EXCEPT !.id = 0 ] = b.value
    /\ bundle_dependency' = bundle_dependency \cup b.dependencies
    /\ bundle_metadata' = bundle_metadata \cup b.metadata

\* C35: the bundle table never holds two rows of one uuid, however save_bundle
\* calls interleave; a save_bundle of a uuid that is stored inserts no row,
\* and any other inserts the bundle row with all its dependency and metadata
\* rows, or no row at all.
C35_OneRowPerUuid ==
    /\ [] ( \A r1 \in bundle : \A r2 \in bundle : r1.uuid = r2.uuid => r1 = r2 )
    /\ [][ IsSave
             => IF \E r \in bundle : r.uuid = last'.saved[1].value.uuid
                THEN UNCHANGED bundleTables
                ELSE SavesAll(last'.saved[1]) \/ UNCHANGED bundleTables ]_vars

\* two callers saved the same new uuid at once: the second insert failed and
\* the store holds the rows of the first
C35_Witness ==
    /\ last.op = "save_bundle"
    /\ last.result = IntegrityError
    /\ Cardinality({ r \in bundle : r.uuid = "b3" }) = 1
    /\ \A c \in Savers : saver[c].pc = "idle"

(***************************************************************************)
(* BundleModel.delete_worksheet and BundleModel.delete_group               *)
(***************************************************************************)
\* an item that refers to the worksheet as its host only
ItemRefersAsHost(r, worksheet_uuid) == r.worksheet_uuid = worksheet_uuid

\* the WHERE clauses of the two deletes on worksheet_item
ItemRefers(r, worksheet_uuid) ==
    r.worksheet_uuid = worksheet_uuid \/ r.subworksheet_uuid = worksheet_uuid

DeleteWorksheet(worksheet_uuid) ==
    /\ group_worksheet_permission' =
          { r \in group_worksheet_permission : r.object_uuid # worksheet_uuid }
    /\ worksheet_item' = { r \in worksheet_item : ~ItemRefers(r, worksheet_uuid) }
    /\ worksheet' = { r \in worksheet : r.uuid # worksheet_uuid }
    /\ last' = [ NoOp EXCEPT !.op = "delete_worksheet", !.ws = worksheet_uuid ]
    /\ UNCHANGED << nextId, bundleTables, group_bundle_permission, groupTables,
                    snap, procs, queue >>

DeleteGroup(uuid) ==
    /\ group_bundle_permission' = { r \in group_bundle_permission : r.group_uuid # uuid }
    /\ group_worksheet_permission' =
          { r \in group_worksheet_permission : r.group_uuid # uuid }
    /\ user_group' = { r \in user_group : r.group_uuid # uuid }
    /\ cl_group' = { r \in cl_group : r.uuid # uuid }
    /\ last' = [ NoOp EXCEPT !.op = "delete_group", !.targets = { uuid } ]
    /\ UNCHANGED << worksheet_item, nextId, bundleTables, permNextId, userGroupNextId,
                    worksheet, snap, procs, queue >>

\* the items the stores of the deleting specification are made of: bundles,
\* markup and subworksheets of both worksheets
DeleteItems ==
    add_worksheet_item(
      add_worksheet_item(
        add_worksheet_item(
          add_worksheet_item(
            add_worksheet_item({}, 1, "w1", <<"b1", NULL, NULL, TYPE_BUNDLE>>),
            2, "w1", <<NULL, "w2", NULL, "worksheet">>),
          3, "w2", <<"b1", NULL, NULL, TYPE_BUNDLE>>),
        4, "w2", <<NULL, "w1", NULL, "worksheet">>),
      5, "w2", <<NULL, NULL, "x", TYPE_MARKUP>>)

\* the permission rows on worksheets the stores are made of
DeleteWorksheetPermissions ==
    { [ id |-> 1, group_uuid |-> PublicGroupUuid, object_uuid |-> "w1",
        permission |-> GROUP_OBJECT_PERMISSION_READ ],
      [ id |-> 2, group_uuid |-> "g1", object_uuid |-> "w1",
        permission |-> GROUP_OBJECT_PERMISSION_ALL ],
      [ id |-> 3, group_uuid |-> "g1", object_uuid |-> "w2",
        permission |-> GROUP_OBJECT_PERMISSION_READ ] }

\* stores that hold any of the items and of the worksheet permissions, a
\* permission of each group on a bundle, and a member of g1
InitDelete ==
    /\ worksheet_item \in SUBSET DeleteItems
    /\ nextId = 6
    /\ InitBundles
    /\ InitDependencies
    /\ group_bundle_permission =
          { [ id |-> 1, group_uuid |-> PublicGroupUuid, object_uuid |-> "b1",
              permission |-> GROUP_OBJECT_PERMISSION_READ ],
            [ id |-> 2, group_uuid |-> "g1", object_uuid |-> "b2",
              permission |-> GROUP_OBJECT_PERMISSION_ALL ] }
    /\ permNextId = 3
    /\ cl_group = { [ uuid |-> PublicGroupUuid, name |-> "public", owner_id |-> NULL,
                      user_defined |-> FALSE ],
                    [ uuid |-> "g1", name |-> "g1", owner_id |-> "u1",
                      user_defined |-> TRUE ] }
    /\ user_group = { [ id |-> 1, group_uuid |-> "g1", user_id |-> "u1",
                        is_admin |-> FALSE ] }
    /\ userGroupNextId = 2
    /\ snap = [ c \in Writers |-> NoSnap ]
    /\ last = NoOp
    /\ walker = IdleWalker
    /\ deleter = IdleDeleter
    /\ instance = [ i \in Instances |-> ConstructedInstance ]
    /\ saver = [ c \in Savers |-> IdleSaver ]
    /\ InitQueue
    /\ worksheet = { [ uuid |-> w, name |-> w, owner_id |-> "u1" ] : w \in WorksheetUuids }
    /\ group_worksheet_permission \in SUBSET DeleteWorksheetPermissions

NextDelete ==
    \/ \E w \in WorksheetUuids : DeleteWorksheet(w)
    \/ \E g \in { PublicGroupUuid, "g1" } : DeleteGroup(g)

SpecDelete == InitDelete /\ [][NextDelete]_vars

(***************************************************************************)
(* Properties of delete_worksheet and delete_group.                        *)
(***************************************************************************)
\* C36: after delete_worksheet(w) no item has w as its worksheet or as its
\* subworksheet and no worksheet permission row refers to w, and the other
\* items and worksheet permission rows are as before; after delete_group(g)
\* no bundle permission, worksheet permission or membership row refers to g
\* and the rows of the other groups are as before.
C36_DeletesLeaveNoReference ==
    [][ /\ last'.op = "delete_worksheet"
           => /\ \A r \in worksheet_item' :
                    r.worksheet_uuid # last'.ws /\ r.subworksheet_uuid # last'.ws
              /\ \A r \in group_worksheet_permission' : r.object_uuid # last'.ws
              /\ \A r \in worksheet_item :
                    (r.worksheet_uuid # last'.ws /\ r.subworksheet_uuid # last'.ws)
                       => r \in worksheet_item'
              /\ worksheet_item' \subseteq worksheet_item
              /\ \A r \in group_worksheet_permission :
                    r.object_uuid # last'.ws => r \in group_worksheet_permission'
              /\ group_worksheet_permission' \subseteq group_worksheet_permission
        /\ last'.op = "delete_group"
           => /\ \A r \in group_bundle_permission' : r.group_uuid \notin last'.targets
              /\ \A r \in group_worksheet_permission' : r.group_uuid \notin last'.targets
              /\ \A r \in user_group' : r.group_uuid \notin last'.targets
              /\ \A r \in group_bundle_permission :
                    r.group_uuid \notin last'.targets => r \in group_bundle_permission'
              /\ \A r \in group_worksheet_permission :
                    r.group_uuid \notin last'.targets => r \in group_worksheet_permission'
              /\ \A r \in user_group : r.group_uuid \notin last'.targets => r \in user_group'
      ]_vars

\* a worksheet was deleted, after the public group, from a store in which
\* the other worksheet held it as a subworksheet, and the other worksheet
\* kept its other items and a permission
C36_Witness ==
    /\ last.op = "delete_worksheet"
    /\ last.ws = "w1"
    /\ worksheet_item = { r \in DeleteItems : r.worksheet_uuid = "w2" /\ r.subworksheet_uuid # "w1" }
    /\ \E r \in group_worksheet_permission : r.object_uuid = "w2"
    /\ \A r \in group_bundle_permission : r.group_uuid # PublicGroupUuid
====
